---- MODULE Spec2Model ----
(***************************************************************************)
(* A model of the omics ExpressionSet class (omics/expression/             *)
(* ExpressionSet.py) and of its HDF5 input/output functions (omics/io/     *)
(* ExpressionSetIO.py).                                                    *)
(*                                                                         *)
(* A pandas DataFrame is a record [kind, index, columns, data]: index and  *)
(* columns are sequences of labels, data is a sequence of rows, each row a *)
(* sequence of cells.  The metadata pd.Series is a sequence of (key,value) *)
(* items.  A call of an operation is one action; it leaves its arguments   *)
(* and its outcome in the variable last, and the program takes the         *)
(* outcome (Continue) before it makes its next call.                *)
(***************************************************************************)
EXTENDS Integers, Sequences, FiniteSets, TLC

VARIABLES eSet, ret, last, store, written, handles, renv, rfiles,
          gmt, disk, job, outbox, defaults

vars == <<eSet, ret, last, store, written, handles, renv, rfiles,
          gmt, disk, job, outbox, defaults>>

\* the state of the ExpressionSet class and its bridges
bridgeVars == <<eSet, store, written, handles, renv, rfiles>>

\* the state of the other modules
toolVars == <<gmt, disk, job, outbox, defaults>>

-----------------------------------------------------------------------------
(* Bounds and input alphabets                                              *)

MaxFeatures == 2

MaxWrites == 2

MaxHandles == 2

FLabels == {"g1", "g2"}

SLabels == {"s1", "s2"}

SeqsUpTo(S, n) == UNION {[1..k -> S] : k \in 0..n}

\* every sequence over S without a repeated label
Orderings(S) == {s \in SeqsUpTo(S, Cardinality(S)) :
                   \A i, j \in 1..Len(s) : s[i] = s[j] => i = j}

FeatureIndexes == SeqsUpTo(FLabels, MaxFeatures)

SampleIndexes == Orderings(SLabels)

-----------------------------------------------------------------------------
(* Values                                                                  *)

None == [kind |-> "None"]

NotDataFrame == [kind |-> "NotDataFrame"]

NoInstance == [kind |-> "NoInstance"]

NaN == -1

DataFrame(idx, cols, cells) ==
    [kind |-> "DataFrame", index |-> idx, columns |-> cols, data |-> cells]

\* pd.DataFrame()
EmptyDataFrame == DataFrame(<<>>, <<>>, <<>>)

\* DataFrame.empty: some axis has length 0
empty(df) == Len(df.index) = 0 \/ Len(df.columns) = 0

\* an input table whose cells are all different: cell (i, j) holds base + 10*i + j
Table(idx, cols, base) ==
    DataFrame(idx, cols,
              [i \in 1..Len(idx) |-> [j \in 1..Len(cols) |-> base + 10 * i + j]])

ExprsInputs == {Table(f, s, 0) : f \in FeatureIndexes, s \in SampleIndexes}
                   \cup {NotDataFrame}

\* the tables the program assigns to exprs of an instance it holds
ReassignInputs == {Table(<<>>, <<>>, 0),
                   Table(<<"g1">>, <<"s1">>, 0),
                   Table(<<"g2", "g1">>, <<"s1">>, 0),
                   Table(<<"g1", "g2">>, <<"s2", "s1">>, 0),
                   NotDataFrame}

FDataInputs == {Table(f, <<"symbol">>, 100) : f \in FeatureIndexes}
                   \cup {None, EmptyDataFrame}

PDataInputs == {Table(s, <<"tissue">>, 200) : s \in SampleIndexes}
                   \cup {None, EmptyDataFrame}

\* keyword arguments: a dict, a function from its keys to its values
NoKwargs == [k \in {} |-> ""]

KwargsInputs == {NoKwargs, [title |-> "GTEx"],
                 [source |-> "lab.RData", title |-> "GTEx"]}

\* the keys in sorted order
KeyOrder == <<"source", "title">>

\* pd.Series(kwargs): the items of the dict, sorted by key
Series(kwargs) ==
    LET In(k) == k \in DOMAIN kwargs
        keys == SelectSeq(KeyOrder, In)
    IN  [i \in 1..Len(keys) |-> [key |-> keys[i], value |-> kwargs[keys[i]]]]

\* **series: the dict of the items of a Series
Kwargs(series) ==
    [k \in {series[i].key : i \in 1..Len(series)} |->
        (CHOOSE it \in {series[i] : i \in 1..Len(series)} : it.key = k).value]

-----------------------------------------------------------------------------
(* Label-based selection: DataFrame.loc                                    *)

\* slice(None), the default of subset: the whole axis
All == [kind |-> "slice"]

\* a list of labels
List(labels) == [kind |-> "list", labels |-> labels]

\* the positions of a label on an axis, in axis order
Positions(axis, label) ==
    LET Hit(i) == axis[i] = label
    IN  SelectSeq([i \in 1..Len(axis) |-> i], Hit)

\* the rows a list of labels selects, in the order of the list: every position
\* that carries the label; a label the axis lacks selects one row of NaN (pos 0)
RECURSIVE LocEntries(_, _)
LocEntries(axis, labels) ==
    IF labels = <<>> THEN <<>>
    ELSE LET l == Head(labels)
             hits == Positions(axis, l)
             here == IF hits = <<>>
                     THEN <<[label |-> l, pos |-> 0]>>
                     ELSE [k \in 1..Len(hits) |-> [label |-> l, pos |-> hits[k]]]
         IN  here \o LocEntries(axis, Tail(labels))

Entries(axis, sel) ==
    IF sel.kind = "slice"
    THEN [i \in 1..Len(axis) |-> [label |-> axis[i], pos |-> i]]
    ELSE LocEntries(axis, sel.labels)

\* .loc raises KeyError when none of the labels of a non-empty list is on the axis
LocKeyError(axis, sel) ==
    /\ sel.kind = "list"
    /\ sel.labels # <<>>
    /\ \A k \in 1..Len(sel.labels) : Positions(axis, sel.labels[k]) = <<>>

\* df.loc[rows, cols]
loc(df, rows, cols) ==
    LET re == Entries(df.index, rows)
        ce == Entries(df.columns, cols)
    IN  DataFrame([i \in 1..Len(re) |-> re[i].label],
                  [j \in 1..Len(ce) |-> ce[j].label],
                  [i \in 1..Len(re) |-> [j \in 1..Len(ce) |->
                      IF re[i].pos = 0 \/ ce[j].pos = 0
                      THEN NaN
                      ELSE df.data[re[i].pos][ce[j].pos]]])

-----------------------------------------------------------------------------
(* class ExpressionSet                                                     *)

Ok(v) == [ok |-> TRUE, err |-> "", val |-> v]

Err(e, v) == [ok |-> FALSE, err |-> e, val |-> v]

\* IndexCompare with the order of the labels ignored
IndexCompare_unordered(a, b) ==
    IF Len(a) # Len(b) THEN "ValueError"
    ELSE IF {a[i] : i \in 1..Len(a)} = {b[i] : i \in 1..Len(b)} THEN "True"
    ELSE "False"

\* all(a == b) on two pandas indexes: the comparison raises ValueError when the
\* lengths differ; otherwise it is true when every pair of labels is equal
IndexCompare(a, b) ==
    IF Len(a) # Len(b) THEN "ValueError"
    ELSE IF \A i \in 1..Len(a) : a[i] = b[i] THEN "True" ELSE "False"

\* exprs.setter: assert isinstance(df, pd.DataFrame); self._exprs = df
exprs_setter(self, df) ==
    IF df.kind # "DataFrame" THEN Err("AssertionError", self)
    ELSE Ok([self EXCEPT !.exprs = df])

\* AlignCheck that looks at the lengths only
AlignCheck_lengths(df, axis) ==
    IF df = None THEN "True"
    ELSE IF Len(df.index) = Len(axis) THEN "True" ELSE "False"

\* AlignCheck that checks None as it checks an empty table
AlignCheck_none(df, axis) ==
    IndexCompare(IF df = None THEN <<>> ELSE df.index, axis)

\* the assertion of fData.setter and pData.setter against an axis of exprs
AlignCheck(df, axis) ==
    IF df = None THEN "True" ELSE IndexCompare(df.index, axis)

\* fData.setter that assigns before it checks
fData_setter_assigns(self, df) ==
    LET c == AlignCheck(df, self.exprs.index)
        new == [self EXCEPT !.fData = IF df # None THEN df ELSE EmptyDataFrame]
    IN  IF c = "ValueError" THEN Err("ValueError", new)
        ELSE IF c = "False" THEN Err("AssertionError", new)
        ELSE Ok(new)

\* fData.setter
fData_setter(self, df) ==
    LET c == AlignCheck(df, self.exprs.index)
    IN  IF c = "ValueError" THEN Err("ValueError", self)
        ELSE IF c = "False" THEN Err("AssertionError", self)
        ELSE Ok([self EXCEPT !.fData = IF df # None THEN df ELSE EmptyDataFrame])

\* pData.setter
pData_setter(self, df) ==
    LET c == AlignCheck(df, self.exprs.columns)
    IN  IF c = "ValueError" THEN Err("ValueError", self)
        ELSE IF c = "False" THEN Err("AssertionError", self)
        ELSE Ok([self EXCEPT !.pData = IF df # None THEN df ELSE EmptyDataFrame])

\* an object before __init__ has assigned its attributes
Blank == [kind |-> "ExpressionSet", exprs |-> None, fData |-> None,
          pData |-> None, meta |-> <<>>]

\* ExpressionSet.__init__: an exception leaves the caller without an instance
init(exprs, fData, pData, kwargs) ==
    LET r1 == exprs_setter(Blank, exprs)
        r2 == fData_setter(r1.val, fData)
        r3 == pData_setter(r2.val, pData)
    IN  IF ~r1.ok THEN Err(r1.err, NoInstance)
        ELSE IF ~r2.ok THEN Err(r2.err, NoInstance)
        ELSE IF ~r3.ok THEN Err(r3.err, NoInstance)
        ELSE Ok([r3.val EXCEPT !.meta = Series(kwargs)])

\* __contains__ that looks at the columns only
contains_columns(self, item) ==
    \E j \in 1..Len(self.exprs.columns) : self.exprs.columns[j] = item

\* ExpressionSet.__contains__
contains(self, item) ==
    \/ \E j \in 1..Len(self.exprs.columns) : self.exprs.columns[j] = item
    \/ \E i \in 1..Len(self.exprs.index) : self.exprs.index[i] = item

\* series.get(key, default)
SeriesGet(series, key, default) ==
    IF \E i \in 1..Len(series) : series[i].key = key
    THEN series[CHOOSE i \in 1..Len(series) : series[i].key = key].value
    ELSE default

\* df.shape
shape(df) == <<Len(df.index), Len(df.columns)>>

\* the lines "key: value" of s2: the items of meta in order, title left out
MetaLines(series) ==
    LET NotTitle(it) == it.key # "title"
    IN  SelectSeq(series, NotTitle)

\* ExpressionSet.__str__: the fields of the format string, line by line;
\* index[0] and columns[0] raise IndexError on an axis without labels
str(self) ==
    IF Len(self.exprs.index) = 0 \/ Len(self.exprs.columns) = 0
    THEN Err("IndexError", None)
    ELSE Ok([kind |-> "str",
             title |-> SeriesGet(self.meta, "title", "ExpressionSet instance"),
             exprs |-> shape(self.exprs),
             fData |-> shape(self.fData),
             pData |-> shape(self.pData),
             features |-> <<self.exprs.index[1],
                            self.exprs.index[Len(self.exprs.index)]>>,
             samples |-> <<self.exprs.columns[1],
                           self.exprs.columns[Len(self.exprs.columns)]>>,
             lines |-> MetaLines(self.meta)])

\* subset that does not pass the metadata on
subset_nometa(self, features, samples) ==
    IF \/ LocKeyError(self.exprs.index, features)
       \/ LocKeyError(self.exprs.columns, samples)
    THEN Err("KeyError", NoInstance)
    ELSE IF ~empty(self.fData) /\ LocKeyError(self.fData.index, features)
    THEN Err("KeyError", NoInstance)
    ELSE IF ~empty(self.pData) /\ LocKeyError(self.pData.index, samples)
    THEN Err("KeyError", NoInstance)
    ELSE LET exprs == loc(self.exprs, features, samples)
             fData == IF ~empty(self.fData) THEN loc(self.fData, features, All)
                      ELSE EmptyDataFrame
             pData == IF ~empty(self.pData) THEN loc(self.pData, samples, All)
                      ELSE EmptyDataFrame
         IN  init(exprs, fData, pData, NoKwargs)

\* ExpressionSet.subset
subset(self, features, samples) ==
    IF \/ LocKeyError(self.exprs.index, features)
       \/ LocKeyError(self.exprs.columns, samples)
    THEN Err("KeyError", NoInstance)
    ELSE IF ~empty(self.fData) /\ LocKeyError(self.fData.index, features)
    THEN Err("KeyError", NoInstance)
    ELSE IF ~empty(self.pData) /\ LocKeyError(self.pData.index, samples)
    THEN Err("KeyError", NoInstance)
    ELSE LET exprs == loc(self.exprs, features, samples)
             fData == IF ~empty(self.fData) THEN loc(self.fData, features, All)
                      ELSE EmptyDataFrame
             pData == IF ~empty(self.pData) THEN loc(self.pData, samples, All)
                      ELSE EmptyDataFrame
         IN  init(exprs, fData, pData, Kwargs(self.meta))

-----------------------------------------------------------------------------
(* The HDF5 store (pd.HDFStore) and the functions of ExpressionSetIO.py    *)

Absent == [kind |-> "Absent"]

StoreKeys == {"exprs", "fData", "pData", "meta"}

\* a file that holds no table
FreshStore == [k \in StoreKeys |-> Absent]

HDF5Path == "eset.h5"

\* store[key] = df: a fixed-format put, which replaces the table under key
put(st, key, df) == Ok([st EXCEPT ![key] = df])

\* store.append(key, df): creates the table under key, or adds the rows of df
\* to the table that is there; the columns have to be those of the table
append(st, key, df) ==
    IF st[key] = Absent THEN Ok([st EXCEPT ![key] = df])
    ELSE IF st[key].columns # df.columns THEN Err("ValueError", st)
    ELSE Ok([st EXCEPT ![key] = DataFrame(st[key].index \o df.index, df.columns,
                                           st[key].data \o df.data)])

\* the metadata Series as the one-column table the store keeps for it
SeriesTable(series) ==
    DataFrame([i \in 1..Len(series) |-> series[i].key], <<"values">>,
              [i \in 1..Len(series) |-> <<series[i].value>>])

\* and the Series read back from that table
TableSeries(df) ==
    [i \in 1..Len(df.index) |-> [key |-> df.index[i], value |-> df.data[i][1]]]

\* store[key]: KeyError when the file has no object of that name
getitem(st, key) ==
    IF st[key] = Absent THEN Err("KeyError", None) ELSE Ok(st[key])

\* ExpressionSet2HDF5 with the emptiness test of fData dropped
ExpressionSet2HDF5_always(e, st) ==
    LET s1 == put(st, "exprs", e.exprs)
        s2 == append(s1.val, "fData", e.fData)
        s3 == IF ~empty(e.pData) THEN append(s2.val, "pData", e.pData) ELSE s2
        s4 == IF e.meta # <<>> THEN append(s3.val, "meta", SeriesTable(e.meta))
              ELSE s3
    IN  IF ~s2.ok THEN s2 ELSE IF ~s3.ok THEN s3 ELSE s4

\* ExpressionSet2HDF5(eSet, HDF5): the file after the call and how the call ended
ExpressionSet2HDF5(e, st) ==
    LET s1 == put(st, "exprs", e.exprs)
        s2 == IF ~empty(e.fData) THEN append(s1.val, "fData", e.fData) ELSE s1
        s3 == IF ~empty(e.pData) THEN append(s2.val, "pData", e.pData) ELSE s2
        s4 == IF e.meta # <<>> THEN append(s3.val, "meta", SeriesTable(e.meta))
              ELSE s3
    IN  IF ~s2.ok THEN s2 ELSE IF ~s3.ok THEN s3 ELSE s4

\* series[key] = value: every item of that key is set, or a new item is added
SeriesSet(series, key, value) ==
    IF \E i \in 1..Len(series) : series[i].key = key
    THEN [i \in 1..Len(series) |->
            IF series[i].key = key THEN [key |-> key, value |-> value]
            ELSE series[i]]
    ELSE Append(series, [key |-> key, value |-> value])

\* f(**series) raises TypeError when a key comes twice
RepeatedKey(series) ==
    \E i, j \in 1..Len(series) : i # j /\ series[i].key = series[j].key

\* the key arguments of HDF52ExpressionSet: a name (a str) or None
DefaultKeys == [fData |-> "fData", pData |-> "pData", meta |-> "meta"]

KeyInputs == [fData : {"fData", "None"}, pData : {"pData", "None"},
              meta : {"meta", "None"}]

\* HDF52ExpressionSet reaches store.close(): every store[key] found its table
StoreClosed(st, keys) ==
    /\ getitem(st, "exprs").ok
    /\ keys.fData # "None" => getitem(st, keys.fData).ok
    /\ keys.pData # "None" => getitem(st, keys.pData).ok
    /\ keys.meta # "None" => getitem(st, keys.meta).ok

\* HDF52ExpressionSet that reads a feature table the store lacks as None
HDF52ExpressionSet_lenient(st, path, keys) ==
    LET x == getitem(st, "exprs")
        f == IF keys.fData # "None" /\ st[keys.fData] # Absent
             THEN getitem(st, keys.fData) ELSE Ok(None)
        p == IF keys.pData # "None" THEN getitem(st, keys.pData) ELSE Ok(None)
        m == IF keys.meta # "None" THEN getitem(st, keys.meta) ELSE Ok(None)
        hdf_meta == SeriesSet(IF keys.meta # "None" THEN TableSeries(m.val)
                              ELSE <<>>, "source", path)
    IN  IF ~x.ok THEN Err(x.err, NoInstance)
        ELSE IF ~f.ok THEN Err(f.err, NoInstance)
        ELSE IF ~p.ok THEN Err(p.err, NoInstance)
        ELSE IF ~m.ok THEN Err(m.err, NoInstance)
        ELSE IF RepeatedKey(hdf_meta) THEN Err("TypeError", NoInstance)
        ELSE init(x.val, f.val, p.val, Kwargs(hdf_meta))

\* HDF52ExpressionSet(HDF5, fData=.., pData=.., meta=..)
HDF52ExpressionSet(st, path, keys) ==
    LET x == getitem(st, "exprs")
        f == IF keys.fData # "None" THEN getitem(st, keys.fData) ELSE Ok(None)
        p == IF keys.pData # "None" THEN getitem(st, keys.pData) ELSE Ok(None)
        m == IF keys.meta # "None" THEN getitem(st, keys.meta) ELSE Ok(None)
        hdf_meta == SeriesSet(IF keys.meta # "None" THEN TableSeries(m.val)
                              ELSE <<>>, "source", path)
    IN  IF ~x.ok THEN Err(x.err, NoInstance)
        ELSE IF ~f.ok THEN Err(f.err, NoInstance)
        ELSE IF ~p.ok THEN Err(p.err, NoInstance)
        ELSE IF ~m.ok THEN Err(m.err, NoInstance)
        ELSE IF RepeatedKey(hdf_meta) THEN Err("TypeError", NoInstance)
        ELSE init(x.val, f.val, p.val, Kwargs(hdf_meta))

-----------------------------------------------------------------------------
(* The program: calls on one ExpressionSet variable and one HDF5 file      *)

NoCall == [op |-> "none", ok |-> TRUE, err |-> "", args |-> <<>>, value |-> None]

Call(op, r, args, value) ==
    [op |-> op, ok |-> r.ok, err |-> r.err, args |-> args, value |-> value]

Ready == last.op = "none"

NothingWritten == [eSet |-> NoInstance, n |-> 0]

\* the names of the R global environment that the functions assign
RNames == {"exprs", "fdata", "pdata", "rdata", "eSet"}

\* the names of the R global environment: those and the names of loaded objects
EnvNames == RNames \cup {"gtex"}

Unbound == [kind |-> "Unbound"]

\* the R global environment of a process that has made no call
NoBindings == [k \in EnvNames |-> Unbound]

NoFile == [kind |-> "NoFile"]

\* the RData paths the calls name
Paths == {"a.RData", "b.RData"}

\* a directory without RData files
NoFiles == [p \in Paths |-> NoFile]

\* a text file: its lines, or its characters
TextFile(content) == [kind |-> "file", content |-> content]

\* the two text files the tools read and write: a GMT file and a list file
NoDisk == [gmt |-> NoFile, txt |-> NoFile]

\* no decorated call is running
Idle == [pc |-> "idle", calls |-> 0]

\* the list object that is the default of the parameter attributes of
\* biomart.query, as the def statement creates it
QueryDefault ==
    <<"hgnc_symbol", "external_gene_id", "chromosome_name", "gene_biotype",
      "description">>

\* the modules other than the ExpressionSet class in a fresh process
ToolsInit ==
    /\ gmt = NoInstance
    /\ disk = NoDisk
    /\ job = Idle
    /\ outbox = <<>>
    /\ defaults = QueryDefault

Init ==
    /\ eSet = NoInstance
    /\ ret = NoInstance
    /\ last = NoCall
    /\ store = FreshStore
    /\ written = NothingWritten
    /\ handles = 0
    /\ renv = NoBindings
    /\ rfiles = NoFiles
    /\ ToolsInit

\* eSet = ExpressionSet(exprs, fData, pData, **kwargs)
ConstructFrom(X, F, P, K) ==
    /\ Ready
    /\ eSet = NoInstance
    /\ \E x \in X, f \in F, p \in P, kw \in K :
         LET r == init(x, f, p, kw)
         IN  /\ eSet' = r.val
             /\ last' = Call("init", r, [exprs |-> x, fData |-> f, pData |-> p,
                                         kwargs |-> kw], None)
    /\ UNCHANGED <<ret, store, written, handles, renv, rfiles, toolVars>>

Construct == ConstructFrom(ExprsInputs, FDataInputs, PDataInputs, KwargsInputs)

\* eSet.exprs = df
SetExprs ==
    /\ Ready
    /\ eSet # NoInstance
    /\ \E df \in ReassignInputs :
         LET r == exprs_setter(eSet, df)
         IN  /\ eSet' = r.val
             /\ last' = Call("exprs.setter", r, [df |-> df], None)
    /\ UNCHANGED <<ret, store, written, handles, renv, rfiles, toolVars>>

\* eSet.fData = df
SetFData ==
    /\ Ready
    /\ eSet # NoInstance
    /\ \E df \in FDataInputs :
         LET r == fData_setter(eSet, df)
         IN  /\ eSet' = r.val
             /\ last' = Call("fData.setter", r, [df |-> df], None)
    /\ UNCHANGED <<ret, store, written, handles, renv, rfiles, toolVars>>

\* eSet.pData = df
SetPData ==
    /\ Ready
    /\ eSet # NoInstance
    /\ \E df \in PDataInputs :
         LET r == pData_setter(eSet, df)
         IN  /\ eSet' = r.val
             /\ last' = Call("pData.setter", r, [df |-> df], None)
    /\ UNCHANGED <<ret, store, written, handles, renv, rfiles, toolVars>>

FeatureSelectors == {All} \cup {List(l) : l \in FeatureIndexes}

SampleSelectors == {All} \cup {List(l) : l \in SampleIndexes}

\* ret = eSet.subset(features, samples)
Subset ==
    /\ Ready
    /\ eSet # NoInstance
    /\ \E features \in FeatureSelectors, samples \in SampleSelectors :
         LET r == subset(eSet, features, samples)
         IN  /\ ret' = r.val
             /\ last' = Call("subset", r, [features |-> features,
                                           samples |-> samples], None)
    /\ UNCHANGED <<eSet, store, written, handles, renv, rfiles, toolVars>>

ItemInputs == FLabels \cup SLabels \cup {"zz"}

\* item in eSet
Contains ==
    /\ Ready
    /\ eSet # NoInstance
    /\ \E item \in ItemInputs :
         last' = Call("contains", Ok(None), [item |-> item], contains(eSet, item))
    /\ UNCHANGED <<eSet, ret, store, written, handles, renv, rfiles, toolVars>>

\* str(eSet), repr(eSet)
Str ==
    /\ Ready
    /\ eSet # NoInstance
    /\ LET r == str(eSet)
       IN  last' = Call("str", r, <<>>, r.val)
    /\ UNCHANGED <<eSet, ret, store, written, handles, renv, rfiles, toolVars>>

\* the program takes the outcome of the call and goes on
Continue ==
    /\ ~Ready
    /\ last' = NoCall
    /\ ret' = NoInstance
    /\ UNCHANGED <<eSet, store, written, handles, renv, rfiles, toolVars>>

\* del eSet
Discard ==
    /\ Ready
    /\ eSet # NoInstance
    /\ eSet' = NoInstance
    /\ UNCHANGED <<ret, last, store, written, handles, renv, rfiles, toolVars>>

\* the class without a reassignment of exprs
NextAligned ==
    \/ Construct
    \/ SetFData
    \/ SetPData
    \/ Subset
    \/ Contains
    \/ Str
    \/ Continue
    \/ Discard

SpecAligned == Init /\ [][NextAligned]_vars

Next ==
    \/ Construct
    \/ SetExprs
    \/ SetFData
    \/ SetPData
    \/ Subset
    \/ Contains
    \/ Str
    \/ Continue
    \/ Discard

Spec == Init /\ [][Next]_vars

-----------------------------------------------------------------------------
(* The program of the HDF5 functions: writes and reads of one file         *)

BridgeExprsInputs == {Table(<<"g1">>, <<"s1">>, 0), Table(<<"g1", "g2">>, <<"s1">>, 0)}

BridgeFDataInputs == {None} \cup {Table(f, <<"symbol">>, 100) : f \in {<<"g1">>, <<"g1", "g2">>}}

BridgePDataInputs == {None, Table(<<"s1">>, <<"tissue">>, 200)}

BridgeKwargsInputs == {NoKwargs, [title |-> "GTEx"],
                       [source |-> "lab.RData", title |-> "GTEx"]}

\* the instances the constructor returns on these inputs
BridgeInstances ==
    {r.val : r \in {q \in {init(x, f, p, kw) : x \in BridgeExprsInputs,
                                              f \in BridgeFDataInputs,
                                              p \in BridgePDataInputs,
                                              kw \in BridgeKwargsInputs} : q.ok}}

\* ExpressionSet2HDF5(e, HDF5Path) of an instance of the set S
WriteOf(S) ==
    /\ Ready
    /\ written.n < MaxWrites
    /\ handles < MaxHandles
    /\ \E e \in S :
         LET r == ExpressionSet2HDF5(e, store)
         IN  /\ store' = r.val
             /\ written' = [eSet |-> e, n |-> written.n + 1]
             /\ last' = Call("ExpressionSet2HDF5", r, [eSet |-> e], None)
             /\ handles' = handles + (IF r.ok THEN 0 ELSE 1)
    /\ UNCHANGED <<eSet, ret, renv, rfiles, toolVars>>

Write == WriteOf(BridgeInstances)

\* ret = HDF52ExpressionSet(HDF5Path, fData=.., pData=.., meta=..)
Read ==
    /\ Ready
    /\ handles < MaxHandles
    /\ \E keys \in KeyInputs :
         LET r == HDF52ExpressionSet(store, HDF5Path, keys)
         IN  /\ ret' = r.val
             /\ last' = Call("HDF52ExpressionSet", r, [keys |-> keys], None)
             /\ handles' = handles + (IF StoreClosed(store, keys) THEN 0 ELSE 1)
    /\ UNCHANGED <<eSet, store, written, renv, rfiles, toolVars>>

\* os.remove(HDF5Path): the next call finds a fresh store
Unlink ==
    /\ Ready
    /\ written.n > 0
    /\ store' = FreshStore
    /\ written' = NothingWritten
    /\ UNCHANGED <<eSet, ret, last, handles, renv, rfiles, toolVars>>

NextHDF5 ==
    \/ Write
    \/ Read
    \/ Unlink
    \/ Continue

SpecHDF5 == Init /\ [][NextHDF5]_vars

-----------------------------------------------------------------------------
(* R data frames and _parse_rdataframe of ExpressionSetIO.py                *)

\* the most rows a data frame of the inference inputs has
MaxRows == 21

\* the most distinct values a column of the inference inputs has
MaxDistinct == 2

\* the threshold of the automatic mode: n > 10 * len(set(v))
FactorRatio == 10

\* an R data.frame: row names, column names, the R type of each column, rows
RDataFrame(rn, names, types, cells) ==
    [kind |-> "data.frame", rownames |-> rn, names |-> names, types |-> types,
     data |-> cells]

\* the pandas dtype pandas2ri gives a column of an R type
ri2py_dtype(rtype) ==
    CASE rtype = "integer" -> "int32"
      [] rtype = "numeric" -> "float64"
      [] rtype = "character" -> "object"
      [] rtype = "factor" -> "category"

\* pandas2ri.ri2py(rdf): the pandas DataFrame of an R data.frame, with dtypes
ri2py(rdf) ==
    [kind |-> "DataFrame", index |-> rdf.rownames, columns |-> rdf.names,
     data |-> rdf.data,
     dtypes |-> [j \in 1..Len(rdf.names) |-> ri2py_dtype(rdf.types[j])]]

\* the factor_cols argument: 'auto', None, a list of names, or another str
Auto == [kind |-> "auto", cols |-> <<>>]

NoFactors == [kind |-> "None", cols |-> <<>>]

FactorList(cols) == [kind |-> "list", cols |-> cols]

FactorStr(s) == [kind |-> "str", cols |-> <<s>>]

\* len(set(v)) of column j
Distinct(df, j) == Cardinality({df.data[i][j] : i \in 1..Len(df.index)})

\* df.select_dtypes(include=['integer', 'object']): the positions it keeps
select_dtypes(df) ==
    {j \in 1..Len(df.columns) : df.dtypes[j] \in {"int32", "int64", "object"}}

\* the automatic rule with >= in place of >
auto_factor_cols_atleast(df) ==
    LET n == Len(df.index)
    IN  {df.columns[j] : j \in {k \in select_dtypes(df) :
                                    n >= FactorRatio * Distinct(df, k)}}

\* the names the automatic mode finds
auto_factor_cols(df) ==
    LET n == Len(df.index)
    IN  {df.columns[j] : j \in {k \in select_dtypes(df) :
                                    n > FactorRatio * Distinct(df, k)}}

\* df[k] = df[k].astype('category') for every k of names
astype_category(df, names) ==
    [df EXCEPT !.dtypes = [j \in 1..Len(df.columns) |->
                              IF df.columns[j] \in names THEN "category"
                              ELSE df.dtypes[j]]]

\* _parse_rdataframe that inspects the values whatever factor_cols is
parse_rdataframe_inspects(rdf, factor_cols) ==
    LET df == ri2py(rdf)
        names == auto_factor_cols(df)
                     \cup {factor_cols.cols[i] : i \in 1..Len(factor_cols.cols)}
    IN  IF factor_cols.kind = "str" THEN Err("AssertionError", None)
        ELSE IF \E k \in names : \A j \in 1..Len(df.columns) : df.columns[j] # k
        THEN Err("KeyError", None)
        ELSE Ok(astype_category(df, names))

\* _parse_rdataframe(rdf, factor_cols)
parse_rdataframe(rdf, factor_cols) ==
    LET df == ri2py(rdf)
        names == IF factor_cols.kind = "auto" THEN auto_factor_cols(df)
                 ELSE {factor_cols.cols[i] : i \in 1..Len(factor_cols.cols)}
    IN  IF factor_cols.kind = "str" THEN Err("AssertionError", None)
        ELSE IF \E k \in names : \A j \in 1..Len(df.columns) : df.columns[j] # k
        THEN Err("KeyError", None)
        ELSE Ok(astype_category(df, names))

\* the column "tissue" of R type t with d distinct values, beside the float
\* column "rin", in a data frame of n rows named 1..n
FactorTable(n, t, d) ==
    RDataFrame([i \in 1..n |-> i], <<"tissue", "rin">>, <<t, "numeric">>,
               [i \in 1..n |-> <<(i - 1) % d, 500 + i>>])

RTypes == {"integer", "numeric", "character", "factor"}

FactorTables == {FactorTable(n, t, d) : n \in 0..MaxRows, t \in RTypes,
                                        d \in 1..MaxDistinct}

FactorColsInputs ==
    {Auto, NoFactors, FactorList(<<>>), FactorList(<<"tissue">>),
     FactorList(<<"rin">>), FactorList(<<"tissue", "rin">>),
     FactorList(<<"batch">>), FactorStr("tissue")}

\* _parse_rdataframe(rdf, factor_cols)
ParseRDataFrame ==
    /\ Ready
    /\ \E rdf \in FactorTables, fc \in FactorColsInputs :
         LET r == parse_rdataframe(rdf, fc)
         IN  /\ ret' = r.val
             /\ last' = Call("_parse_rdataframe", r,
                             [rdf |-> rdf, factor_cols |-> fc], None)
    /\ UNCHANGED <<eSet, store, written, handles, renv, rfiles, toolVars>>

NextFactors ==
    \/ ParseRDataFrame
    \/ Continue

SpecFactors == Init /\ [][NextFactors]_vars

-----------------------------------------------------------------------------
(* The R process (rpy2) and the RData functions of ExpressionSetIO.py       *)

\* an R matrix with dimnames
RMatrix(rn, cn, cells) ==
    [kind |-> "matrix", rownames |-> rn, colnames |-> cn, data |-> cells]

\* a Biobase ExpressionSet: assayData maps assay names to matrices
RExpressionSet(assayData, fData, pData) ==
    [kind |-> "R.ExpressionSet", assayData |-> assayData, fData |-> fData,
     pData |-> pData]

\* an R character vector of length 1
RString(s) == [kind |-> "character", value |-> s]

\* an RData file: the named objects save() put in it, in order
RFile(objects) == [kind |-> "RData", objects |-> objects]

\* pandas2ri.py2ri(df): the R data.frame of a pandas DataFrame of integers
py2ri(df) ==
    RDataFrame(df.index, df.columns, [j \in 1..Len(df.columns) |-> "integer"],
               df.data)

\* as.matrix(exprs)
as_matrix(rdf) == RMatrix(rdf.rownames, rdf.names, rdf.data)

\* r.assign(name, value)
assign(env, name, value) == [env EXCEPT ![name] = value]

\* ExpressionSet(assayData=, featureData=AnnotatedDataFrame(fdata),
\* phenoData=AnnotatedDataFrame(pdata)): Biobase rejects tables whose row
\* names are not the feature and the sample names of the matrix
R_ExpressionSet(mat, fdata, pdata) ==
    IF fdata.rownames # mat.rownames \/ pdata.rownames # mat.colnames
    THEN Err("RRuntimeError", None)
    ELSE Ok(RExpressionSet([a \in {"exprs"} |-> mat], fdata, pdata))

\* what the call leaves: how it ended, the R environment and the files
Left(r, env, files) ==
    [ok |-> r.ok, err |-> r.err, val |-> r.val, env |-> env, files |-> files]

\* ExpressionSet2RData whose bindings are gone when the call returns
ExpressionSet2RData_local(e, RData, env, files) ==
    LET e1 == assign(env, "exprs", py2ri(e.exprs))
        e2 == assign(e1, "fdata", py2ri(e.fData))
        e3 == assign(e2, "pdata", py2ri(e.pData))
        e4 == assign(e3, "rdata", RString(RData))
        c == R_ExpressionSet(as_matrix(e4.exprs), e4.fdata, e4.pdata)
        e5 == assign(e4, "eSet", c.val)
    IN  IF ~c.ok THEN Left(c, env, files)
        ELSE Left(Ok(None), env,
                  [files EXCEPT ![e5.rdata.value] =
                      RFile(<<[name |-> "eSet", value |-> e5.eSet]>>)])

\* ExpressionSet2RData that leaves fdata as an earlier call bound it
ExpressionSet2RData_stale(e, RData, env, files) ==
    LET e1 == assign(env, "exprs", py2ri(e.exprs))
        e2 == IF env.fdata = Unbound THEN assign(e1, "fdata", py2ri(e.fData))
              ELSE e1
        e3 == assign(e2, "pdata", py2ri(e.pData))
        e4 == assign(e3, "rdata", RString(RData))
        c == R_ExpressionSet(as_matrix(e4.exprs), e4.fdata, e4.pdata)
        e5 == assign(e4, "eSet", c.val)
    IN  IF ~c.ok THEN Left(c, e4, files)
        ELSE Left(Ok(None), e5,
                  [files EXCEPT ![e5.rdata.value] =
                      RFile(<<[name |-> "eSet", value |-> e5.eSet]>>)])

\* ExpressionSet2RData(eSet, RData): every r(...) statement reads the names
\* from the global environment the r.assign calls wrote
ExpressionSet2RData(e, RData, env, files) ==
    LET e1 == assign(env, "exprs", py2ri(e.exprs))
        e2 == assign(e1, "fdata", py2ri(e.fData))
        e3 == assign(e2, "pdata", py2ri(e.pData))
        e4 == assign(e3, "rdata", RString(RData))
        c == R_ExpressionSet(as_matrix(e4.exprs), e4.fdata, e4.pdata)
        e5 == assign(e4, "eSet", c.val)
    IN  IF ~c.ok THEN Left(c, e4, files)
        ELSE Left(Ok(None), e5,
                  [files EXCEPT ![e5.rdata.value] =
                      RFile(<<[name |-> "eSet", value |-> e5.eSet]>>)])

\* r.load(RData): binds every object of the file in the global environment
RECURSIVE load(_, _)
load(env, objects) ==
    IF objects = <<>> THEN env
    ELSE load(assign(env, Head(objects).name, Head(objects).value),
              Tail(objects))

\* r.get(rdata) on the vector of loaded names: no name is an error; of
\* several names R takes the first (first = TRUE) or rejects the vector
get(env, names, first) ==
    IF Len(names) = 0 THEN Err("RRuntimeError", None)
    ELSE IF Len(names) > 1 /\ ~first THEN Err("RRuntimeError", None)
    ELSE Ok(env[names[1]])

\* _read_ExpressionSet_RData(RData)
read_ExpressionSet_RData(RData, env, files, first) ==
    LET file == files[RData]
        env1 == load(env, file.objects)
        names == [i \in 1..Len(file.objects) |-> file.objects[i].name]
        obj == get(env1, names, first)
    IN  IF file = NoFile THEN Left(Err("RRuntimeError", None), env, files)
        ELSE IF ~obj.ok THEN Left(obj, env1, files)
        ELSE IF obj.val.kind # "R.ExpressionSet"
        THEN Left(Err("RRuntimeError", None), env1, files)
        ELSE Left(obj, env1, files)

\* _parse_assayData(assayData, assay)
parse_assayData(assayData, assay) ==
    IF assay \notin DOMAIN assayData THEN Err("LookupError", None)
    ELSE LET mat == assayData[assay]
         IN  Ok(DataFrame(mat.rownames, mat.colnames, mat.data))

\* kwargs.setdefault('source', RData): a source of the caller is kept
SetSource_default(kwargs, RData) ==
    [k \in DOMAIN kwargs \cup {"source"} |->
        IF k \in DOMAIN kwargs THEN kwargs[k] ELSE RData]

\* kwargs['source'] = RData
SetSource(kwargs, RData) ==
    [k \in DOMAIN kwargs \cup {"source"} |->
        IF k = "source" THEN RData ELSE kwargs[k]]

\* RData2ExpressionSet with fFactors handed to both tables
RData2ExpressionSet_shared(RData, assay, fFactors, pFactors, kwargs, env, files, first) ==
    LET rd == read_ExpressionSet_RData(RData, env, files, first)
        exprs == parse_assayData(rd.val.assayData, assay)
        fData == parse_rdataframe(rd.val.fData, fFactors)
        pData == parse_rdataframe(rd.val.pData, fFactors)
        made == init(exprs.val, fData.val, pData.val, SetSource(kwargs, RData))
    IN  IF ~rd.ok THEN [rd EXCEPT !.val = NoInstance]
        ELSE IF ~exprs.ok THEN Left(Err(exprs.err, NoInstance), rd.env, files)
        ELSE IF ~fData.ok THEN Left(Err(fData.err, NoInstance), rd.env, files)
        ELSE IF ~pData.ok THEN Left(Err(pData.err, NoInstance), rd.env, files)
        ELSE Left(made, rd.env, files)

\* RData2ExpressionSet(RData, assay, fFactors, pFactors, **kwargs)
RData2ExpressionSet(RData, assay, fFactors, pFactors, kwargs, env, files, first) ==
    LET rd == read_ExpressionSet_RData(RData, env, files, first)
        exprs == parse_assayData(rd.val.assayData, assay)
        fData == parse_rdataframe(rd.val.fData, fFactors)
        pData == parse_rdataframe(rd.val.pData, pFactors)
        made == init(exprs.val, fData.val, pData.val, SetSource(kwargs, RData))
    IN  IF ~rd.ok THEN [rd EXCEPT !.val = NoInstance]
        ELSE IF ~exprs.ok THEN Left(Err(exprs.err, NoInstance), rd.env, files)
        ELSE IF ~fData.ok THEN Left(Err(fData.err, NoInstance), rd.env, files)
        ELSE IF ~pData.ok THEN Left(Err(pData.err, NoInstance), rd.env, files)
        ELSE Left(made, rd.env, files)

\* the instances handed to ExpressionSet2RData: two with all three tables and
\* one whose fData is empty
RDataInstances ==
    {init(Table(<<"g1">>, <<"s1">>, 0), Table(<<"g1">>, <<"symbol">>, 100),
          Table(<<"s1">>, <<"tissue">>, 200), NoKwargs).val,
     init(Table(<<"g1", "g2">>, <<"s1">>, 300),
          Table(<<"g1", "g2">>, <<"symbol">>, 400),
          Table(<<"s1">>, <<"tissue">>, 500), [title |-> "GTEx"]).val,
     init(Table(<<"g1">>, <<"s1">>, 0), None,
          Table(<<"s1">>, <<"tissue">>, 200), NoKwargs).val}

\* files written by R itself
WideSamples == <<"s01", "s02", "s03", "s04", "s05", "s06", "s07", "s08",
                 "s09", "s10", "s11">>

\* one feature measured on eleven samples of one tissue
WideESet ==
    RExpressionSet(
        [a \in {"exprs"} |->
            RMatrix(<<"g1">>, WideSamples, <<[j \in 1..Len(WideSamples) |-> j]>>)],
        RDataFrame(<<"g1">>, <<"chr">>, <<"integer">>, <<<<7>>>>),
        RDataFrame(WideSamples, <<"tissue", "rin">>, <<"integer", "numeric">>,
                   [i \in 1..Len(WideSamples) |-> <<1, 500 + i>>]))

\* an object whose feature table names other features than its matrix
SkewESet ==
    RExpressionSet(
        [a \in {"exprs"} |-> RMatrix(<<"g1", "g2">>, <<"s1">>, <<<<1>>, <<2>>>>)],
        RDataFrame(<<"g2", "g1">>, <<"chr">>, <<"integer">>, <<<<7>>, <<8>>>>),
        RDataFrame(<<"s1">>, <<"tissue">>, <<"integer">>, <<<<1>>>>))

SmallESet ==
    RExpressionSet(
        [a \in {"exprs"} |-> RMatrix(<<"g1">>, <<"s1">>, <<<<1>>>>)],
        RDataFrame(<<"g1">>, <<"chr">>, <<"integer">>, <<<<7>>>>),
        RDataFrame(<<"s1">>, <<"tissue">>, <<"integer">>, <<<<1>>>>))

ForeignFiles ==
    {RFile(<<>>),
     RFile(<<[name |-> "gtex", value |-> WideESet]>>),
     RFile(<<[name |-> "gtex", value |-> SkewESet]>>),
     RFile(<<[name |-> "gtex", value |-> SmallESet],
             [name |-> "eSet", value |-> WideESet]>>),
     RFile(<<[name |-> "gtex", value |-> WideESet.pData]>>)}

\* a process that starts beside a file some R session wrote, or beside none
InitRData ==
    /\ eSet = NoInstance
    /\ ret = NoInstance
    /\ last = NoCall
    /\ store = FreshStore
    /\ written = NothingWritten
    /\ handles = 0
    /\ renv = NoBindings
    /\ rfiles \in {[p \in Paths |-> IF p = "b.RData" THEN f ELSE NoFile] :
                      f \in ForeignFiles \cup {NoFile}}
    /\ ToolsInit

\* ExpressionSet2RData(e, RData)
Save ==
    /\ Ready
    /\ \E e \in RDataInstances, RData \in Paths :
         LET r == ExpressionSet2RData(e, RData, renv, rfiles)
         IN  /\ renv' = r.env
             /\ rfiles' = r.files
             /\ last' = Call("ExpressionSet2RData", r,
                             [eSet |-> e, RData |-> RData], None)
    /\ UNCHANGED <<eSet, ret, store, written, handles, toolVars>>

LoadFactors == {Auto, NoFactors}

LoadInputs ==
    [RData : Paths, assay : {"exprs"},
     fFactors : LoadFactors \cup {FactorList(<<"chr">>)},
     pFactors : LoadFactors \cup {FactorList(<<"tissue">>)},
     kwargs : {NoKwargs, [source |-> "lab.RData", title |-> "GTEx"]}]
    \cup [RData : Paths, assay : {"counts"}, fFactors : {Auto},
          pFactors : {Auto}, kwargs : {NoKwargs}]

\* RData2ExpressionSet(RData, assay, fFactors, pFactors, **kwargs)
Load ==
    /\ Ready
    /\ \E a \in LoadInputs, first \in BOOLEAN :
         LET r == RData2ExpressionSet(a.RData, a.assay, a.fFactors, a.pFactors,
                                      a.kwargs, renv, rfiles, first)
         IN  /\ ret' = r.val
             /\ renv' = r.env
             /\ last' = Call("RData2ExpressionSet", r, a, None)
    /\ UNCHANGED <<eSet, store, written, handles, rfiles, toolVars>>

NextRData ==
    \/ Save
    \/ Load
    \/ Continue

SpecRData == InitRData /\ [][NextRData]_vars

\* the instances a process that loads from both kinds of file writes first
LoaderInstances ==
    {init(Table(<<"g1">>, <<"s1">>, 0), Table(<<"g1">>, <<"symbol">>, 100),
          Table(<<"s1">>, <<"tissue">>, 200),
          [source |-> "lab.RData", title |-> "GTEx"]).val,
     init(Table(<<"g1", "g2">>, <<"s1">>, 0), None, None, NoKwargs).val}

\* a process that loads from RData files and from the HDF5 file
NextBridge ==
    \/ WriteOf(LoaderInstances)
    \/ Read
    \/ Unlink
    \/ Load
    \/ Continue

SpecBridge == InitRData /\ [][NextBridge]_vars

-----------------------------------------------------------------------------
(* stats/fisher.py: Fisher's exact test on numbers or sets                  *)

\* the genes of the universe of the set inputs
MaxGenes == 3

\* the largest marginal number of the integer inputs
MaxCount == 3

\* scipy.stats.fisher_exact(table): (oddsratio, pvalue) is a function of the
\* table; a negative cell is a ValueError
fisher_exact(table) ==
    IF \E i, j \in 1..2 : table[i][j] < 0 THEN Err("ValueError", None)
    ELSE Ok([kind |-> "fisher_exact", table |-> table])

\* _test_by_marginal_numbers(a, b, c, d)
test_by_marginal_numbers(a, b, c, d) ==
    fisher_exact(<<<<a, b - a>>, <<c - a, d - b - c + a>>>>)

\* _test_by_set_sizes without the restriction to the common background
test_by_set_sizes_unrestricted(u, v, U, V) ==
    LET background == U \cap V
        nu == u
        nv == v
    IN  test_by_marginal_numbers(Cardinality(nu \cap nv), Cardinality(nu),
                                 Cardinality(nv), Cardinality(background))

\* _test_by_set_sizes(u, v, U, V)
test_by_set_sizes(u, v, U, V) ==
    LET background == U \cap V
        nu == u \cap background
        nv == v \cap background
    IN  test_by_marginal_numbers(Cardinality(nu \cap nv), Cardinality(nu),
                                 Cardinality(nv), Cardinality(background))

\* the arguments of fisher_exact_test: four ints, four sets, or neither
IntArgs(a, b, c, d) == [kind |-> "int", a |-> a, b |-> b, c |-> c, d |-> d]

SetArgs(a, b, c, d) == [kind |-> "set", a |-> a, b |-> b, c |-> c, d |-> d]

\* three sets and a list in the place of the last one
MixedArgs(a, b, c) == [kind |-> "mixed", a |-> a, b |-> b, c |-> c, d |-> <<>>]

\* fisher_exact_test(a, b, c, d): with arguments that are neither all ints
\* nor all sets no branch assigns oddsratio, and its use is an
\* UnboundLocalError
fisher_exact_test(args) ==
    IF args.kind = "int"
    THEN test_by_marginal_numbers(args.a, args.b, args.c, args.d)
    ELSE IF args.kind = "set"
    THEN test_by_set_sizes(args.a, args.b, args.c, args.d)
    ELSE Err("UnboundLocalError", None)

Genes == 1..MaxGenes

\* the sets of the doctest of fisher_exact_test
DoctestSets ==
    SetArgs(1..10, (1..8) \cup {11}, 1..16, 1..16)

\* the arguments of the calls: counts up to n, and sets of the genes
FisherInputs(n, genes) ==
    {IntArgs(a, b, c, d) : a, b, c, d \in 0..n}
    \cup {SetArgs(u, v, U, V) : u, v, U, V \in SUBSET genes}
    \cup {MixedArgs(u, v, U) : u, v, U \in SUBSET genes}
    \cup {DoctestSets, IntArgs(8, 10, 9, 16)}

\* odds, pval = fisher_exact_test(a, b, c, d)
FisherExactTest ==
    /\ Ready
    /\ \E args \in FisherInputs(MaxCount, Genes) :
         LET r == fisher_exact_test(args)
         IN  /\ ret' = r.val
             /\ last' = Call("fisher_exact_test", r, args, None)
    /\ UNCHANGED <<eSet, store, written, handles, renv, rfiles, toolVars>>

NextFisher ==
    \/ FisherExactTest
    \/ Continue

SpecFisher == Init /\ [][NextFisher]_vars

-----------------------------------------------------------------------------
(* stats/FDR.py: the Benjamini-Hochberg threshold                           *)

\* the most p-values of an input
MaxPValues == 3

\* p-values and levels are the fractions q / PGrid, q in 0..PGrid
PGrid == 6

\* a fraction num / den
Fraction(num, den) == [kind |-> "float", num |-> num, den |-> den]

\* q / PGrid <= x
AtMost(q, x) == q * x.den <= x.num * PGrid

\* sorted(P, reverse=True)
RECURSIVE sorted_reverse(_)
sorted_reverse(P) ==
    IF P = <<>> THEN <<>>
    ELSE LET i == CHOOSE k \in 1..Len(P) : \A j \in 1..Len(P) : P[j] <= P[k]
             rest == [j \in 1..(Len(P) - 1) |-> IF j < i THEN P[j] ELSE P[j + 1]]
         IN  <<P[i]>> \o sorted_reverse(rest)

\* the loop of FDR_BH_threshold from position i (counted from 1) on
RECURSIVE BH_scan(_, _, _)
BH_scan(Pr, alpha, i) ==
    LET m == Len(Pr)
        threshold == Fraction(alpha * (m - (i - 1)), PGrid * m)
    IN  IF AtMost(Pr[i], threshold) \/ i = m THEN threshold
        ELSE BH_scan(Pr, alpha, i + 1)

\* the loop run from the smallest p-value upwards
RECURSIVE BH_scan_up(_, _, _)
BH_scan_up(Pr, alpha, i) ==
    LET m == Len(Pr)
        threshold == Fraction(alpha * (m - (i - 1)), PGrid * m)
    IN  IF AtMost(Pr[i], threshold) \/ i = 1 THEN threshold
        ELSE BH_scan_up(Pr, alpha, i - 1)

\* FDR_BH_threshold that takes the first rank that qualifies from below
FDR_BH_threshold_stepdown(P, alpha) ==
    IF P = <<>> THEN Err("UnboundLocalError", None)
    ELSE Ok(BH_scan_up(sorted_reverse(P), alpha, Len(P)))

\* FDR_BH_threshold(P, alpha) with alpha = alpha / PGrid; on an empty P the
\* loop never assigns threshold
FDR_BH_threshold(P, alpha) ==
    IF P = <<>> THEN Err("UnboundLocalError", None)
    ELSE Ok(BH_scan(sorted_reverse(P), alpha, 1))

PValueInputs == SeqsUpTo(0..PGrid, MaxPValues)

AlphaInputs == {1, 3}

\* FDR_BH_threshold(P, alpha)
FDRThreshold ==
    /\ Ready
    /\ \E P \in PValueInputs, alpha \in AlphaInputs :
         LET r == FDR_BH_threshold(P, alpha)
         IN  /\ ret' = r.val
             /\ last' = Call("FDR_BH_threshold", r, [P |-> P, alpha |-> alpha], None)
    /\ UNCHANGED <<eSet, store, written, handles, renv, rfiles, toolVars>>

NextFDR ==
    \/ FDRThreshold
    \/ Continue

SpecFDR == Init /\ [][NextFDR]_vars

-----------------------------------------------------------------------------
(* feature_selection/MRMR.py                                                *)

\* the largest n asked for
MaxSelect == 4

\* mutual information values are 1..MaxMI
MaxMI == 2

MINames == {"y", "f1", "f2", "f3"}

\* sum(list)
RECURSIVE sum(_)
sum(s) == IF s = <<>> THEN 0 ELSE Head(s) + sum(Tail(s))

\* sum([df[y][i] for i in S])
relevance_sum(df, S, y) == sum([i \in 1..Len(S) |-> df[y][S[i]]])

\* sum([df[i][j] for (i, j) in product(S, repeat=2)])
redundancy_sum(df, S) ==
    sum([i \in 1..Len(S) |-> sum([j \in 1..Len(S) |-> df[S[i]][S[j]]])])

\* _MID_score(df, S, y) = _relevance - _redundancy, as a fraction over len(S)^2
MID_score(df, S, y) ==
    [num |-> Len(S) * relevance_sum(df, S, y) - redundancy_sum(df, S),
     den |-> Len(S) * Len(S)]

\* _MIQ_score(df, S, y) = _relevance / _redundancy, as a fraction
MIQ_score(df, S, y) ==
    [num |-> Len(S) * relevance_sum(df, S, y), den |-> redundancy_sum(df, S)]

get_score(df, S, y, criterion, f) ==
    IF criterion = "MID" THEN MID_score(df, Append(S, f), y)
    ELSE MIQ_score(df, Append(S, f), y)

\* a <= b for fractions with positive denominators
FracLeq(a, b) == a.num * b.den <= b.num * a.den

\* sorted(F, key=get_score, reverse=True)[0]: a feature of the largest
\* score; among equal scores the one the iteration of the set F meets first
Best(df, S, F, y, criterion) ==
    {f \in F : \A g \in F : FracLeq(get_score(df, S, y, criterion, g),
                                     get_score(df, S, y, criterion, f))}

\* the loop of MRMR with k rounds to go: every list of (name, score) rows it
\* can end with
RECURSIVE select(_, _, _, _, _, _, _)
select(df, y, criterion, S, scores, F, k) ==
    IF k <= 0 THEN {[Name |-> S, Score |-> scores]}
    ELSE UNION {select(df, y, criterion, Append(S, f),
                       Append(scores, get_score(df, S, y, criterion, f)),
                       F \ {f}, k - 1) : f \in Best(df, S, F, y, criterion)}

\* pd.DataFrame({'Name': S, 'Score': scores}): rows indexed from 0
Selection(rows) ==
    [kind |-> "DataFrame", index |-> [i \in 1..Len(rows.Name) |-> i - 1],
     Name |-> rows.Name, Score |-> rows.Score]

\* MRMR(df, y, n, criterion, to_exclude): the results the call can end
\* with; idxmax of an empty selection is a ValueError
MRMR(df, y, n, criterion, to_exclude) ==
    LET F == (DOMAIN df \ {y}) \ to_exclude
        n1 == IF n < Cardinality(F) THEN n ELSE Cardinality(F)
        first == {f \in F : \A g \in F : df[y][g] <= df[y][f]}
    IN  IF F = {} THEN {Err("ValueError", None)}
        ELSE IF criterion \notin {"MID", "MIQ"} THEN {Err("Exception", None)}
        ELSE {Ok(Selection(rows)) :
                rows \in UNION {select(df, y, criterion, <<f>>,
                                       <<[num |-> df[y][f], den |-> 1]>>,
                                       F \ {f}, n1 - 1) : f \in first}}

\* symmetric MI matrices whose diagonal, the entropy, is MaxMI
MIMatrices ==
    LET pairs == {p \in SUBSET MINames : Cardinality(p) = 2}
    IN  {[i \in MINames |-> [j \in MINames |->
            IF i = j THEN MaxMI ELSE v[{i, j}]]] : v \in [pairs -> 1..MaxMI]}

ExcludeInputs == {{}, {"f1"}, {"f1", "f2", "f3"}, {"zz"}}

CriterionInputs == {"MID", "MIQ", "MIX"}

\* MRMR(df, 'y', n, criterion, to_exclude)
SelectFeatures ==
    /\ Ready
    /\ \E df \in MIMatrices, n \in 0..MaxSelect, c \in CriterionInputs,
          x \in ExcludeInputs :
         \E r \in MRMR(df, "y", n, c, x) :
             /\ ret' = r.val
             /\ last' = Call("MRMR", r, [df |-> df, y |-> "y", n |-> n,
                                         criterion |-> c, to_exclude |-> x], None)
    /\ UNCHANGED <<eSet, store, written, handles, renv, rfiles, toolVars>>

NextMRMR ==
    \/ SelectFeatures
    \/ Continue

SpecMRMR == Init /\ [][NextMRMR]_vars

-----------------------------------------------------------------------------
(* gsa/GeneSetCollection.py                                                 *)

\* the most lines of a GMT file
MaxLines == 2

\* line.strip() on the tab-separated fields of a line: the empty fields at
\* both ends go with the tabs around them
RECURSIVE lstrip(_)
lstrip(fields) ==
    IF fields # <<>> /\ Head(fields) = "" THEN lstrip(Tail(fields)) ELSE fields

RECURSIVE rstrip(_)
rstrip(fields) ==
    IF fields # <<>> /\ fields[Len(fields)] = ""
    THEN rstrip(SubSeq(fields, 1, Len(fields) - 1)) ELSE fields

\* line.strip().split('\t'): a line without a field left is one empty field
strip_split(fields) ==
    LET L == rstrip(lstrip(fields))
    IN  IF L = <<>> THEN <<"">> ELSE L

\* D[name] = set(genelist)
setitem(D, name, value) ==
    [k \in DOMAIN D \cup {name} |-> IF k = name THEN value ELSE D[k]]

\* _load_gmt that takes the fields from the second on as the genes
RECURSIVE load_gmt_description(_, _)
load_gmt_description(lines, D) ==
    IF lines = <<>> THEN D
    ELSE LET L == strip_split(Head(lines))
             name == L[1]
             genelist == SubSeq(L, 2, Len(L))
         IN  load_gmt_description(Tail(lines),
                 setitem(D, name, {genelist[i] : i \in 1..Len(genelist)}))

\* GeneSetCollection._load_gmt: the dict after the lines, read in order
RECURSIVE load_gmt(_, _)
load_gmt(lines, D) ==
    IF lines = <<>> THEN D
    ELSE LET L == strip_split(Head(lines))
             name == L[1]
             genelist == SubSeq(L, 3, Len(L))
         IN  load_gmt(Tail(lines),
                      setitem(D, name, {genelist[i] : i \in 1..Len(genelist)}))

\* the dict {}
EmptyDict == [k \in {} |-> {}]

\* GeneSetCollection(input_file_path): a path that does not end in .gmt
\* reaches 'raise e', and e is not defined
GeneSetCollection(path, file) ==
    IF path # "kegg.gmt" THEN Err("NameError", NoInstance)
    ELSE IF file = NoFile THEN Err("IOError", NoInstance)
    ELSE Ok([kind |-> "GeneSetCollection", source |-> path,
             genesets |-> load_gmt(file.content, EmptyDict)])

\* GeneSetCollection.__contains__
contains_geneset(self, geneset) == geneset \in DOMAIN self.genesets

\* GeneSetCollection.search: the keys whose set holds the gene
search(self, gene) == {key \in DOMAIN self.genesets : gene \in self.genesets[key]}

\* lines of a GMT file: name, description, genes
GMTLines ==
    {<<"KEGG_A", "d", "TP53">>, <<"KEGG_A", "d", "CLOCK">>,
     <<"KEGG_B", "", "TP53", "CLOCK">>, <<"KEGG_C", "TP53">>,
     <<"KEGG_C", "">>}

\* a process beside a GMT file
InitGMT ==
    /\ eSet = NoInstance
    /\ ret = NoInstance
    /\ last = NoCall
    /\ store = FreshStore
    /\ written = NothingWritten
    /\ handles = 0
    /\ renv = NoBindings
    /\ rfiles = NoFiles
    /\ gmt = NoInstance
    /\ disk \in {[NoDisk EXCEPT !.gmt = TextFile(lines)] :
                    lines \in SeqsUpTo(GMTLines, MaxLines)}
    /\ job = Idle
    /\ outbox = <<>>
    /\ defaults = QueryDefault

\* gmt = GeneSetCollection(path)
LoadGMT ==
    /\ Ready
    /\ \E path \in {"kegg.gmt", "kegg.txt"} :
         LET r == GeneSetCollection(path, disk.gmt)
         IN  /\ gmt' = IF r.ok THEN r.val ELSE gmt
             /\ last' = Call("GeneSetCollection", r, [path |-> path], None)
    /\ UNCHANGED <<ret, bridgeVars, disk, job, outbox, defaults>>

\* every order of the elements of S: the order of a dict's keys
Listings(S) == {s \in SeqsUpTo(S, Cardinality(S)) :
                  {s[i] : i \in 1..Len(s)} = S /\ Len(s) = Cardinality(S)}

GeneInputs == {"TP53", "CLOCK", "d", "PER1"}

\* gmt.search(gene)
Search ==
    /\ Ready
    /\ gmt # NoInstance
    /\ \E gene \in GeneInputs : \E found \in Listings(search(gmt, gene)) :
         last' = Call("search", Ok(None), [gene |-> gene],
                      [kind |-> "list", items |-> found])
    /\ UNCHANGED <<ret, bridgeVars, toolVars>>

NameInputs == {"KEGG_A", "KEGG_B", "KEGG_C", "d", "TP53"}

\* name in gmt
ContainsGeneSet ==
    /\ Ready
    /\ gmt # NoInstance
    /\ \E name \in NameInputs :
         last' = Call("contains_geneset", Ok(None), [name |-> name],
                      [kind |-> "bool", value |-> contains_geneset(gmt, name)])
    /\ UNCHANGED <<ret, bridgeVars, toolVars>>

NextGMT ==
    \/ LoadGMT
    \/ Search
    \/ ContainsGeneSet
    \/ Continue

SpecGMT == InitGMT /\ [][NextGMT]_vars

-----------------------------------------------------------------------------
(* io/SimpleTextIO.py                                                       *)

\* the most strings of a list
MaxList == 3

\* the line break
NL == "\n"

\* strings without a line break, as their characters
LineInputs == {<<>>, <<"a">>, <<"b">>}

ListInputs == SeqsUpTo(LineInputs, MaxList)

\* '\n'.join(L)
RECURSIVE join(_)
join(L) ==
    IF L = <<>> THEN <<>>
    ELSE IF Len(L) = 1 THEN L[1]
    ELSE L[1] \o <<NL>> \o join(Tail(L))

\* fout.writelines("%s\n" % line for line in L)
RECURSIVE writelines(_)
writelines(L) ==
    IF L = <<>> THEN <<>> ELSE L[1] \o <<NL>> \o writelines(Tail(L))

\* list2file: the characters it leaves in the file
list2file(L, low_memory) == IF low_memory THEN writelines(L) ELSE join(L)

\* str.splitlines: a line ends at its line break, and what follows the last
\* line break is a line when it is not empty
RECURSIVE splitlines(_, _)
splitlines(text, line) ==
    IF text = <<>> THEN (IF line = <<>> THEN <<>> ELSE <<line>>)
    ELSE IF Head(text) = NL THEN <<line>> \o splitlines(Tail(text), <<>>)
    ELSE splitlines(Tail(text), Append(line, Head(text)))

\* file2list(path) with dtype None
file2list(file) == splitlines(file.content, <<>>)

\* list2file(L, path, low_memory)
List2File ==
    /\ Ready
    /\ \E L \in ListInputs, low_memory \in BOOLEAN :
         /\ disk' = [disk EXCEPT !.txt = TextFile(list2file(L, low_memory))]
         /\ last' = Call("list2file", Ok(None),
                          [L |-> L, low_memory |-> low_memory], None)
    /\ UNCHANGED <<ret, bridgeVars, gmt, job, outbox, defaults>>

\* file2list(path)
File2List ==
    /\ Ready
    /\ disk.txt # NoFile
    /\ last' = Call("file2list", Ok(None), [path |-> "list.txt"],
                     [kind |-> "list", items |-> file2list(disk.txt)])
    /\ UNCHANGED <<ret, bridgeVars, toolVars>>

NextText ==
    \/ List2File
    \/ File2List
    \/ Continue

SpecText == Init /\ [][NextText]_vars

-----------------------------------------------------------------------------
(* job/email.py                                                             *)

\* the most calls of the decorated function
MaxCalls == 3

\* the single quote
Quote == "'"

\* what the shell makes of a command line, read piece by piece: a single
\* quote opens or closes a quoted stretch, and a command line that ends
\* inside one is a syntax error
RECURSIVE sh_words(_, _, _)
sh_words(command, quoted, words) ==
    IF command = <<>>
    THEN (IF quoted THEN Err("syntax error", <<>>) ELSE Ok(words))
    ELSE IF Head(command) = Quote
    THEN sh_words(Tail(command), ~quoted, words)
    ELSE sh_words(Tail(command), quoted,
                  Append(words, [text |-> Head(command), quoted |-> quoted]))

Pipe == " | mail -s "

\* the words of echo: those before the pipe
RECURSIVE echo(_)
echo(words) ==
    IF words = <<>> \/ (Head(words).text = Pipe /\ ~Head(words).quoted)
    THEN <<>>
    ELSE <<Head(words).text>> \o echo(Tail(words))

\* os.system(command): the exit status and the mail that mail sends
system(command) ==
    LET parsed == sh_words(command, FALSE, <<>>)
    IN  IF parsed.ok
        THEN [status |-> 0, sent |-> <<[body |-> echo(Tail(parsed.val))]>>]
        ELSE [status |-> 512, sent |-> <<>>]

\* emailme(content) with the default title and the user's name
emailme(content) ==
    system(<<"echo ", Quote>> \o content
           \o <<Quote, Pipe, Quote, "Notification", Quote, " ", "me">>)

\* '\n'.join(time_info)
time_info ==
    <<"Function: f", NL, "Started:  t0", NL, "Finished: t1", NL, "Duration: d">>

\* ''.join(traceback.format_exception(e_type, e_value, e_traceback))
format_exception(e) ==
    <<"Traceback (most recent call last):", NL, e.type, ": ">>
    \o e.message \o <<NL>>

\* the exceptions the wrapped function raises
Exceptions ==
    {[type |-> "ValueError", message |-> <<"bad value">>],
     [type |-> "KeyError", message |-> <<Quote, "x", Quote>>],
     [type |-> "IOError", message |-> <<"can", Quote, "t open">>]}

\* the values the wrapped function returns
Results == {[kind |-> "int", value |-> 0], [kind |-> "int", value |-> 1]}

\* decorated(*args, **kwargs), up to the call of func
CallDecorated ==
    /\ Ready
    /\ job.pc = "idle"
    /\ job.calls < MaxCalls
    /\ job' = [pc |-> "running", calls |-> job.calls + 1]
    /\ UNCHANGED <<ret, last, bridgeVars, gmt, disk, outbox, defaults>>

\* func returns: the try block after it
FunctionReturns ==
    /\ job.pc = "running"
    /\ \E results \in Results :
         /\ outbox' = outbox \o emailme(time_info).sent
         /\ last' = Call("decorated", Ok(None), [raised |-> None], results)
    /\ job' = [job EXCEPT !.pc = "idle"]
    /\ UNCHANGED <<ret, bridgeVars, gmt, disk, defaults>>

\* func raises: the except block
FunctionRaises ==
    /\ job.pc = "running"
    /\ \E e \in Exceptions :
         /\ outbox' = outbox \o emailme(format_exception(e)).sent
         /\ last' = Call("decorated", Err(e.type, None), [raised |-> e], e)
    /\ job' = [job EXCEPT !.pc = "idle"]
    /\ UNCHANGED <<ret, bridgeVars, gmt, disk, defaults>>

NextWatch ==
    \/ CallDecorated
    \/ FunctionReturns
    \/ FunctionRaises
    \/ Continue

SpecWatch == Init /\ [][NextWatch]_vars

-----------------------------------------------------------------------------
(* biomart/__init__.py                                                      *)

\* attributes.insert(0, filters)
insert0(attributes, filters) == <<filters>> \o attributes

IsIn(x, list) == \E i \in 1..Len(list) : list[i] = x

\* the body of query on the list object that attributes is bound to: the
\* list after the call and the attributes that getBM is asked for
query(values, filters, attributes) ==
    LET asked == IF ~IsIn(filters, attributes)
                 THEN insert0(attributes, filters) ELSE attributes
    IN  [attributes |-> asked,
         request |-> [kind |-> "getBM", values |-> values,
                      filters |-> filters, attributes |-> asked]]

\* genes[0].isdigit() and genes[0].startswith("ENSG")
FilterOf(gene) ==
    IF gene = "7157" THEN "entrez_gene_id"
    ELSE IF gene = "ENSG00000141510" THEN "ensembl_gene_id"
    ELSE "hgnc_symbol"

\* annotate(genes): query(genes, filters, version) on the default list
annotate(genes, attributes) == query(genes, FilterOf(genes[1]), attributes)

GeneLists ==
    {<<"TP53">>, <<"7157">>, <<"ENSG00000141510">>, <<"TP53", "CLOCK">>}

FilterInputs == {"entrez_gene_id", "ensembl_gene_id", "hgnc_symbol"}

\* a list the caller passes for attributes
OwnAttributes == <<"chromosome_name">>

\* query(values, filters), with the default list or with a list of the
\* caller's
Query ==
    /\ Ready
    /\ \E values \in GeneLists, filters \in FilterInputs, own \in BOOLEAN :
         LET r == query(values, filters,
                        IF own THEN OwnAttributes ELSE defaults)
         IN  /\ defaults' = IF own THEN defaults ELSE r.attributes
             /\ last' = Call("query", Ok(None),
                              [values |-> values, filters |-> filters,
                               own |-> own], r.request)
    /\ UNCHANGED <<ret, bridgeVars, gmt, disk, job, outbox>>

\* annotate(genes)
Annotate ==
    /\ Ready
    /\ \E genes \in GeneLists :
         LET r == annotate(genes, defaults)
         IN  /\ defaults' = r.attributes
             /\ last' = Call("annotate", Ok(None), [genes |-> genes],
                              r.request)
    /\ UNCHANGED <<ret, bridgeVars, gmt, disk, job, outbox>>

NextBiomart ==
    \/ Query
    \/ Annotate
    \/ Continue

SpecBiomart == Init /\ [][NextBiomart]_vars

-----------------------------------------------------------------------------
(* Properties of class ExpressionSet                                       *)

\* the labels of an axis, as a set
Labels(axis) == {axis[i] : i \in 1..Len(axis)}

\* invariants 1 and 2 of the data model on one instance
Aligned(e) ==
    /\ e.fData = EmptyDataFrame \/ e.fData.index = e.exprs.index
    /\ e.pData = EmptyDataFrame \/ e.pData.index = e.exprs.columns

\* C1: without a reassignment of exprs, in every state the instance the
\* program holds and every instance subset returned have an fData that is the
\* empty table or has the index of exprs, label by label in the same order,
\* and a pData that is the empty table or has the columns of exprs as its index.
C1_AlignmentInvariant ==
    /\ eSet # NoInstance => Aligned(eSet)
    /\ ret # NoInstance => Aligned(ret)

\* subset has returned an instance with two features and non-empty tables
C1_Witness ==
    /\ last.op = "subset"
    /\ last.ok
    /\ Len(ret.exprs.index) = 2
    /\ ~empty(ret.fData)
    /\ ~empty(ret.pData)

\* C2: a construction from a table exprs fails when fData is given with an
\* index that differs from exprs.index as a sequence, and when pData is given
\* with an index that differs from exprs.columns; it succeeds when each of
\* fData and pData is None or has exactly the labels of its axis of exprs.
C2_ConstructionChecksAlignment ==
    (last.op = "init" /\ last.args.exprs.kind = "DataFrame") =>
        LET a == last.args
            fOff == a.fData # None /\ a.fData.index # a.exprs.index
            pOff == a.pData # None /\ a.pData.index # a.exprs.columns
        IN  /\ fOff \/ pOff => ~last.ok /\ eSet = NoInstance
            /\ ~fOff /\ ~pOff =>
                   /\ last.ok
                   /\ eSet # NoInstance
                   /\ eSet.exprs = a.exprs

\* the construction with the features g1, g2 and an fData indexed g2, g1 failed
C2_Witness ==
    /\ last.op = "init"
    /\ last.args.exprs.kind = "DataFrame"
    /\ last.args.exprs.index = <<"g1", "g2">>
    /\ last.args.fData # None
    /\ last.args.fData.index = <<"g2", "g1">>
    /\ ~last.ok

\* the argument of the last setter call does not have the labels of its axis
SetterArgOff ==
    /\ last.args.df # None
    /\ \/ last.op = "fData.setter" /\ last.args.df.index # eSet.exprs.index
       \/ last.op = "pData.setter" /\ last.args.df.index # eSet.exprs.columns

\* C3: the assignment of a misaligned fData or pData fails at the assignment,
\* and a failed assignment leaves exprs, fData, pData and the metadata of the
\* instance as they were.
C3_FailedAssignmentKeepsState ==
    /\ [](last.op \in {"fData.setter", "pData.setter"} /\ SetterArgOff
             => ~last.ok)
    /\ [][last'.op \in {"fData.setter", "pData.setter"} /\ ~last'.ok
             => eSet' = eSet]_vars

\* an assignment to fData failed on an instance that has a non-empty fData
C3_Witness ==
    /\ last.op = "fData.setter"
    /\ ~last.ok
    /\ ~empty(eSet.fData)
    /\ eSet.fData.index = eSet.exprs.index

\* C4: an assignment to exprs never leaves the instance with an fData or a
\* pData that is not the empty table and does not have the labels of exprs.
C4_ExprsAssignmentKeepsAlignment ==
    last.op = "exprs.setter" /\ last.ok => Aligned(eSet)

\* the selector asks for labels of the axis only
Within(sel, axis) ==
    sel.kind = "slice" \/ Labels(sel.labels) \subseteq Labels(axis)

\* the labels the selector asks for, in the order asked
Requested(sel, axis) == IF sel.kind = "slice" THEN axis ELSE sel.labels

Unique(axis) == \A i, j \in 1..Len(axis) : axis[i] = axis[j] => i = j

\* out has the rows labelled R of df, in the order of R, each with its cells
RowsOf(out, df, R) ==
    /\ out.index = R
    /\ out.columns = df.columns
    /\ \A i \in 1..Len(R) :
         \E p \in 1..Len(df.index) :
            df.index[p] = R[i] /\ out.data[i] = df.data[p]

\* out has the cells of df at the rows labelled R and the columns labelled C
CellsOf(out, df, R, C) ==
    /\ out.index = R
    /\ out.columns = C
    /\ \A i \in 1..Len(R), j \in 1..Len(C) :
         \E p \in 1..Len(df.index), q \in 1..Len(df.columns) :
            /\ df.index[p] = R[i]
            /\ df.columns[q] = C[j]
            /\ out.data[i][j] = df.data[p][q]

\* C5: on an instance with non-empty fData and pData, a subset by labels of
\* the instance returns an instance that satisfies the alignment invariants
\* and, the labels of exprs being all different, holds the requested rows and
\* columns of exprs, the requested rows of fData and the requested rows of
\* pData, in the requested order; a selector left out selects the whole axis.
C5_SubsetSelectsByLabel ==
    (/\ last.op = "subset"
     /\ ~empty(eSet.fData)
     /\ ~empty(eSet.pData)
     /\ Within(last.args.features, eSet.exprs.index)
     /\ Within(last.args.samples, eSet.exprs.columns)) =>
        LET R == Requested(last.args.features, eSet.exprs.index)
            C == Requested(last.args.samples, eSet.exprs.columns)
        IN  /\ last.ok
            /\ ret # NoInstance
            /\ Aligned(ret)
            /\ Unique(eSet.exprs.index) /\ Unique(eSet.exprs.columns) =>
                   /\ CellsOf(ret.exprs, eSet.exprs, R, C)
                   /\ RowsOf(ret.fData, eSet.fData, R)
                   /\ RowsOf(ret.pData, eSet.pData, C)

\* C6: on an instance whose fData or pData is empty and whose exprs has a
\* feature and a sample, a subset by labels of the instance succeeds, returns
\* the requested selection of exprs, and the table that was empty is empty in
\* the instance returned.
C6_SubsetOfEmptyTables ==
    (/\ last.op = "subset"
     /\ empty(eSet.fData) \/ empty(eSet.pData)
     /\ Len(eSet.exprs.index) >= 1
     /\ Len(eSet.exprs.columns) >= 1
     /\ Within(last.args.features, eSet.exprs.index)
     /\ Within(last.args.samples, eSet.exprs.columns)) =>
        /\ last.ok
        /\ ret # NoInstance
        /\ empty(eSet.fData) => empty(ret.fData)
        /\ empty(eSet.pData) => empty(ret.pData)
        /\ Unique(eSet.exprs.index) /\ Unique(eSet.exprs.columns) =>
               CellsOf(ret.exprs, eSet.exprs,
                       Requested(last.args.features, eSet.exprs.index),
                       Requested(last.args.samples, eSet.exprs.columns))

\* C7: a call of subset leaves the receiver as it was, and the instance it
\* returns has the metadata keys and values of the receiver.
C7_SubsetKeepsReceiverAndMetadata ==
    /\ [](last.op = "subset" /\ last.ok
             => Kwargs(ret.meta) = Kwargs(eSet.meta) /\ ret.meta = eSet.meta)
    /\ [][last'.op = "subset" => eSet' = eSet]_vars

\* subset has returned an instance from a receiver that has a title
C7_Witness ==
    /\ last.op = "subset"
    /\ last.ok
    /\ eSet.meta # <<>>
    /\ ret.exprs # eSet.exprs

\* C8: the assignment of None to fData or pData succeeds whatever exprs is and
\* leaves the empty table in the attribute; a construction with None for fData
\* leaves the empty table in fData, with None for pData the empty table in
\* pData, and never fails when both are None.
C8_NoneResetsToEmpty ==
    /\ last.op = "fData.setter" /\ last.args.df = None
           => last.ok /\ eSet.fData = EmptyDataFrame
    /\ last.op = "pData.setter" /\ last.args.df = None
           => last.ok /\ eSet.pData = EmptyDataFrame
    /\ last.op = "init" /\ last.args.exprs.kind = "DataFrame" =>
           /\ last.args.fData = None /\ last.args.pData = None => last.ok
           /\ last.ok /\ last.args.fData = None => eSet.fData = EmptyDataFrame
           /\ last.ok /\ last.args.pData = None => eSet.pData = EmptyDataFrame
           /\ ~last.ok /\ last.args.fData = None
                  => last.args.pData # None
                     /\ last.args.pData.index # last.args.exprs.columns

\* None was assigned to the fData of an instance with two features
C8_Witness ==
    /\ last.op = "fData.setter"
    /\ last.args.df = None
    /\ Len(eSet.exprs.index) = 2
    /\ eSet.fData = EmptyDataFrame

\* C9: item in eSet is true exactly when item is a column label or a row
\* label of exprs, and the answer is the same whatever fData, pData and the
\* metadata are.
C9_ContainsIsLabelOfExprs ==
    last.op = "contains" =>
        /\ last.value = (last.args.item \in Labels(eSet.exprs.columns)
                                          \cup Labels(eSet.exprs.index))
        /\ \A f \in {EmptyDataFrame, eSet.fData}, p \in {EmptyDataFrame, eSet.pData},
              m \in {<<>>, eSet.meta} :
              contains([eSet EXCEPT !.fData = f, !.pData = p, !.meta = m],
                       last.args.item) = last.value

\* a feature label was found in an instance
C9_Witness ==
    /\ last.op = "contains"
    /\ last.args.item \in FLabels
    /\ last.value = TRUE

-----------------------------------------------------------------------------
(* Properties of the HDF5 functions                                        *)

\* C10: after one ExpressionSet2HDF5 of an instance with non-empty fData and
\* pData to a fresh store, HDF52ExpressionSet with the default keys succeeds
\* and returns an instance with the exprs, fData and pData of that instance.
C10_HDF5RoundTrip ==
    (/\ last.op = "HDF52ExpressionSet"
     /\ last.args.keys = DefaultKeys
     /\ written.n = 1
     /\ ~empty(written.eSet.fData)
     /\ ~empty(written.eSet.pData)) =>
        /\ last.ok
        /\ ret # NoInstance
        /\ ret.exprs = written.eSet.exprs
        /\ ret.fData = written.eSet.fData
        /\ ret.pData = written.eSet.pData

\* C11: HDF52ExpressionSet of a store that holds exprs succeeds whichever of
\* fData, pData and meta the store lacks, and returns an instance with the
\* stored exprs in which each missing table is empty and missing metadata
\* leaves only the source entry.
C11_MissingTablesReadAsEmpty ==
    (/\ last.op = "HDF52ExpressionSet"
     /\ last.args.keys = DefaultKeys
     /\ store.exprs # Absent) =>
        /\ last.ok
        /\ ret # NoInstance
        /\ ret.exprs = store.exprs
        /\ store.fData = Absent => empty(ret.fData)
        /\ store.pData = Absent => empty(ret.pData)
        /\ store.meta = Absent => Len(ret.meta) = 1

\* C12: after ExpressionSet2HDF5 of an instance to a fresh store the call has
\* succeeded, the store holds the exprs of the instance, and it holds fData,
\* pData and meta exactly when that part of the instance is not empty, each
\* as the instance has it.
C12_WritesNonEmptyParts ==
    (/\ last.op = "ExpressionSet2HDF5"
     /\ written.n = 1) =>
        LET e == written.eSet
        IN  /\ last.ok
            /\ store.exprs = e.exprs
            /\ store.fData = (IF empty(e.fData) THEN Absent ELSE e.fData)
            /\ store.pData = (IF empty(e.pData) THEN Absent ELSE e.pData)
            /\ store.meta = (IF e.meta = <<>> THEN Absent
                             ELSE SeriesTable(e.meta))

\* an instance with empty fData and no metadata was written to a fresh store
C12_Witness ==
    /\ last.op = "ExpressionSet2HDF5"
    /\ written.n = 1
    /\ empty(written.eSet.fData)
    /\ ~empty(written.eSet.pData)
    /\ written.eSet.meta = <<>>
    /\ store.fData = Absent
    /\ store.pData # Absent

\* C16: when a call of HDF52ExpressionSet or ExpressionSet2HDF5 has ended,
\* normally or with an error, no handle of the store is open.
C16_StoreClosedAfterCall ==
    last.op \in {"HDF52ExpressionSet", "ExpressionSet2HDF5"} => handles = 0

-----------------------------------------------------------------------------
(* Properties of the categorical inference                                  *)

\* the distinct values of column j of an R data frame, counted on its rows
RDistinct(rdf, j) == Cardinality({rdf.data[i][j] : i \in 1..Len(rdf.rownames)})

\* column j of the returned table was made categorical by the call
Marked(rdf, df, j) == df.dtypes[j] = "category" /\ rdf.types[j] # "factor"

\* C18: _parse_rdataframe in 'auto' mode succeeds and makes a column
\* categorical exactly when the column is integer or object typed and the
\* row count exceeds 10 times its distinct values; at exactly 10 times the
\* column is not converted, and a float column stays float64.
C18_AutoMarksByRatio ==
    (/\ last.op = "_parse_rdataframe"
     /\ last.args.factor_cols = Auto) =>
        LET rdf == last.args.rdf
            n == Len(rdf.rownames)
        IN  /\ last.ok
            /\ \A j \in 1..Len(rdf.names) :
                 /\ Marked(rdf, ret, j) <=>
                        /\ rdf.types[j] \in {"integer", "character"}
                        /\ n > FactorRatio * RDistinct(rdf, j)
                 /\ n = FactorRatio * RDistinct(rdf, j) => ~Marked(rdf, ret, j)
                 /\ rdf.types[j] = "numeric" => ret.dtypes[j] = "float64"

\* the boundary: an integer column of 20 rows over 2 values was left int32
C18_Witness ==
    /\ last.op = "_parse_rdataframe"
    /\ last.args.factor_cols = Auto
    /\ Len(last.args.rdf.rownames) = 20
    /\ last.args.rdf.types[1] = "integer"
    /\ RDistinct(last.args.rdf, 1) = 2
    /\ ret.dtypes[1] = "int32"

\* C19: with None or a list as factor_cols, a call that returns a table has
\* made categorical exactly the listed columns and left every other column
\* with the dtype of its R type; None and the empty list always return the
\* table with no column converted.
C19_ExplicitListOnly ==
    (/\ last.op = "_parse_rdataframe"
     /\ last.args.factor_cols.kind \in {"None", "list"}) =>
        LET rdf == last.args.rdf
            cols == last.args.factor_cols.cols
            listed == {cols[i] : i \in 1..Len(cols)}
        IN  /\ listed = {} => last.ok
            /\ last.ok =>
                 \A j \in 1..Len(rdf.names) :
                    ret.dtypes[j] = IF rdf.names[j] \in listed THEN "category"
                                    ELSE ri2py_dtype(rdf.types[j])

\* the list ['rin'] on a table whose integer column the automatic mode would
\* convert: only the float column became categorical
C19_Witness ==
    /\ last.op = "_parse_rdataframe"
    /\ last.args.factor_cols = FactorList(<<"rin">>)
    /\ Len(last.args.rdf.rownames) = 11
    /\ last.args.rdf.types[1] = "integer"
    /\ RDistinct(last.args.rdf, 1) = 1
    /\ ret.dtypes = <<"int32", "category">>

-----------------------------------------------------------------------------
(* Properties of the RData functions                                        *)

\* the R data.frame rdf holds the labels and the cells of the DataFrame df
SameTable(rdf, df) ==
    /\ rdf.kind = "data.frame"
    /\ rdf.rownames = df.index
    /\ rdf.names = df.columns
    /\ rdf.data = df.data

\* the bindings a returned ExpressionSet2RData(e, RData) leaves in env
BoundFrom(env, e, RData) ==
    /\ SameTable(env.exprs, e.exprs)
    /\ SameTable(env.fdata, e.fData)
    /\ SameTable(env.pdata, e.pData)
    /\ env.rdata = RString(RData)
    /\ env.eSet.kind = "R.ExpressionSet"
    /\ env.eSet.assayData["exprs"].data = e.exprs.data
    /\ env.eSet.fData = env.fdata
    /\ env.eSet.pData = env.pdata

\* C15: RData2ExpressionSet of a file that holds no object or several
\* objects ends with an error and returns no instance.
C15_OneObjectOrError ==
    (/\ last.op = "RData2ExpressionSet"
     /\ rfiles[last.args.RData] # NoFile
     /\ Len(rfiles[last.args.RData].objects) # 1) =>
        /\ ~last.ok
        /\ ret = NoInstance

\* C17: a step in which ExpressionSet2RData(e, RData) returns leaves exprs,
\* fdata, pdata, rdata and eSet of the R global environment bound to the
\* values of e and RData, whatever they were bound to before; every step that
\* is not a call of ExpressionSet2RData leaves exprs, fdata, pdata and rdata
\* as they are, and eSet too unless it is a call of RData2ExpressionSet.
C17_BindingsPersist ==
    [][/\ (Ready /\ last'.op = "ExpressionSet2RData" /\ last'.ok) =>
            BoundFrom(renv', last'.args.eSet, last'.args.RData)
       /\ ~(Ready /\ last'.op = "ExpressionSet2RData") =>
            /\ \A k \in {"exprs", "fdata", "pdata", "rdata"} : renv'[k] = renv[k]
            /\ ~(Ready /\ last'.op = "RData2ExpressionSet") =>
                    renv'.eSet = renv.eSet]_vars

\* a second ExpressionSet2RData returned: a.RData holds the object of an
\* earlier call, and all five names are bound to the values of this call
C17_Witness ==
    /\ last.op = "ExpressionSet2RData"
    /\ last.ok
    /\ last.args.RData = "b.RData"
    /\ rfiles["a.RData"] # NoFile
    /\ rfiles["a.RData"].objects[1].value # renv.eSet
    /\ BoundFrom(renv, last.args.eSet, "b.RData")

\* the columns of the R data.frame rdf that the automatic rule names
AutoNames(rdf) ==
    {rdf.names[j] : j \in {k \in 1..Len(rdf.names) :
        /\ rdf.types[k] \in {"integer", "character"}
        /\ Len(rdf.rownames) > FactorRatio * RDistinct(rdf, k)}}

\* the columns of df the call made categorical
MarkedNames(rdf, df) ==
    {rdf.names[j] : j \in {k \in 1..Len(rdf.names) : Marked(rdf, df, k)}}

\* C20: in an instance RData2ExpressionSet returns, the categorical columns
\* of a table loaded in 'auto' mode are those the rule names on that table
\* alone, whatever mode the other table of the call was loaded in and
\* whatever calls came before.
C20_AutoDependsOnOwnTable ==
    (/\ last.op = "RData2ExpressionSet"
     /\ last.ok) =>
        LET obj == rfiles[last.args.RData].objects[1].value
        IN  /\ last.args.fFactors = Auto =>
                 MarkedNames(obj.fData, ret.fData) = AutoNames(obj.fData)
            /\ last.args.pFactors = Auto =>
                 MarkedNames(obj.pData, ret.pData) = AutoNames(obj.pData)

\* pData in 'auto' mode got its column converted while fData was loaded
\* with None
C20_Witness ==
    /\ last.op = "RData2ExpressionSet"
    /\ last.ok
    /\ last.args.fFactors = NoFactors
    /\ last.args.pFactors = Auto
    /\ ret.pData.dtypes = <<"category", "float64">>
    /\ ret.fData.dtypes = <<"int32">>

-----------------------------------------------------------------------------
(* Properties of both loaders                                               *)

\* the Series meta has the item key: value
HasItem(meta, key, value) ==
    \E i \in 1..Len(meta) : meta[i] = [key |-> key, value |-> value]

\* the Series meta has source: path and no other source
SourceIs(meta, path) ==
    /\ HasItem(meta, "source", path)
    /\ \A i \in 1..Len(meta) : meta[i].key = "source" => meta[i].value = path

MissingTable(keys) ==
    \/ store.exprs = Absent
    \/ keys.fData # "None" /\ store.fData = Absent
    \/ keys.pData # "None" /\ store.pData = Absent
    \/ keys.meta # "None" /\ store.meta = Absent

\* a table the call names has other labels than the stored matrix
MisalignedTable(keys) ==
    \/ keys.fData # "None" /\ store.fData.index # store.exprs.index
    \/ keys.pData # "None" /\ store.pData.index # store.exprs.columns

\* the file is not there, holds no object, or its object is no ExpressionSet
\* or lacks the assay
MissingObject(file, assay) ==
    \/ file = NoFile
    \/ file.objects = <<>>
    \/ file.objects[1].value.kind # "R.ExpressionSet"
    \/ assay \notin DOMAIN file.objects[1].value.assayData

\* the tables of the R object have other names than its matrix
MisalignedObject(obj, assay) ==
    \/ obj.fData.rownames # obj.assayData[assay].rownames
    \/ obj.pData.rownames # obj.assayData[assay].colnames

AlignmentErrors == {"AssertionError", "ValueError"}

\* C14: a load whose table or object is missing ends with an error that is
\* not the alignment error, also when the tables are misaligned as well; a
\* load of misaligned tables ends with an error; and a load that ends with
\* an error returns no instance.
C14_FailedLoadReturnsNothing ==
    /\ last.op = "HDF52ExpressionSet" =>
          LET keys == last.args.keys
          IN  /\ MissingTable(keys) =>
                    ~last.ok /\ last.err \notin AlignmentErrors
              /\ (~MissingTable(keys) /\ MisalignedTable(keys)) => ~last.ok
    /\ last.op = "RData2ExpressionSet" =>
          LET file == rfiles[last.args.RData]
              assay == last.args.assay
          IN  /\ MissingObject(file, assay) =>
                    ~last.ok /\ last.err \notin AlignmentErrors
              /\ (~MissingObject(file, assay)
                    /\ MisalignedObject(file.objects[1].value, assay)) => ~last.ok
    /\ (last.op \in {"HDF52ExpressionSet", "RData2ExpressionSet"} /\ ~last.ok) =>
          ret = NoInstance

\* the object of the file has its feature table in another order than its
\* matrix: every table was read and the constructor rejected them
C14_Witness ==
    /\ last.op = "RData2ExpressionSet"
    /\ ~last.ok
    /\ last.err \in AlignmentErrors
    /\ ret = NoInstance
    /\ renv.gtex = SkewESet
    /\ MisalignedObject(rfiles[last.args.RData].objects[1].value, "exprs")

-----------------------------------------------------------------------------
(* Properties of repeated writes                                            *)

\* C28: after one or more ExpressionSet2HDF5 calls on the store, of which the
\* last wrote an instance with fData, pData and metadata, HDF52ExpressionSet
\* with the default keys succeeds and returns the exprs, fData and pData of
\* that instance and the items of its metadata with the source set to the
\* path.
C28_LastWriteWins ==
    (/\ last.op = "HDF52ExpressionSet"
     /\ last.args.keys = DefaultKeys
     /\ written.n >= 1
     /\ ~empty(written.eSet.fData)
     /\ ~empty(written.eSet.pData)
     /\ written.eSet.meta # <<>>) =>
        /\ last.ok
        /\ ret # NoInstance
        /\ ret.exprs = written.eSet.exprs
        /\ ret.fData = written.eSet.fData
        /\ ret.pData = written.eSet.pData
        /\ Kwargs(ret.meta) = Kwargs(SeriesSet(written.eSet.meta, "source", HDF5Path))

\* the object of the file is built from the three tables of the instance e
SavedFrom(file, e) ==
    /\ file # NoFile
    /\ Len(file.objects) = 1
    /\ file.objects[1].name = "eSet"
    /\ LET obj == file.objects[1].value
       IN  /\ obj.kind = "R.ExpressionSet"
           /\ DOMAIN obj.assayData = {"exprs"}
           /\ obj.assayData["exprs"].rownames = e.exprs.index
           /\ obj.assayData["exprs"].colnames = e.exprs.columns
           /\ obj.assayData["exprs"].data = e.exprs.data
           /\ SameTable(obj.fData, e.fData)
           /\ SameTable(obj.pData, e.pData)

\* C29: a step in which ExpressionSet2RData(e, RData) returns leaves at RData
\* a file whose one object is built from the exprs, fData and pData of e,
\* whatever the R environment held before; the file at every other path is
\* as it was, and a call that ends with an error writes no file.
C29_SavedFromOwnArguments ==
    [][(Ready /\ last'.op = "ExpressionSet2RData") =>
          /\ last'.ok => SavedFrom(rfiles'[last'.args.RData], last'.args.eSet)
          /\ \A p \in Paths \ {last'.args.RData} : rfiles'[p] = rfiles[p]
          /\ ~last'.ok => rfiles' = rfiles]_vars

\* a call saved to a.RData while the R environment still held the bindings
\* of an earlier call that saved another object to b.RData
C29_Witness ==
    /\ last.op = "ExpressionSet2RData"
    /\ last.ok
    /\ last.args.RData = "a.RData"
    /\ SavedFrom(rfiles["a.RData"], last.args.eSet)
    /\ rfiles["b.RData"] # NoFile
    /\ Len(rfiles["b.RData"].objects) = 1
    /\ rfiles["b.RData"].objects[1].name = "eSet"
    /\ rfiles["b.RData"].objects[1].value # rfiles["a.RData"].objects[1].value

-----------------------------------------------------------------------------
(* Properties of the summary string                                         *)

\* C21: str of an instance returns a summary whose first line is the title
\* of the metadata, or 'ExpressionSet instance' without one; that gives the
\* row and column counts of exprs, fData and pData and the first and last
\* label of each axis of exprs; and whose last lines are the metadata items
\* other than title, each once.
C21_SummaryOfState ==
    last.op = "str" =>
        /\ last.ok
        /\ LET s == last.value
               n == Len(eSet.exprs.index)
               m == Len(eSet.exprs.columns)
               Titled == \E i \in 1..Len(eSet.meta) : eSet.meta[i].key = "title"
           IN  /\ Titled => HasItem(eSet.meta, "title", s.title)
               /\ ~Titled => s.title = "ExpressionSet instance"
               /\ s.exprs = <<n, m>>
               /\ s.fData = <<Len(eSet.fData.index), Len(eSet.fData.columns)>>
               /\ s.pData = <<Len(eSet.pData.index), Len(eSet.pData.columns)>>
               /\ s.features = <<eSet.exprs.index[1], eSet.exprs.index[n]>>
               /\ s.samples = <<eSet.exprs.columns[1], eSet.exprs.columns[m]>>
               /\ \A i \in 1..Len(s.lines) : s.lines[i].key # "title"
               /\ \A i \in 1..Len(eSet.meta) :
                    eSet.meta[i].key # "title" =>
                        Cardinality({j \in 1..Len(s.lines) :
                                        s.lines[j] = eSet.meta[i]}) = 1
               /\ \A j \in 1..Len(s.lines) : HasItem(eSet.meta, s.lines[j].key,
                                                     s.lines[j].value)

-----------------------------------------------------------------------------
(* Properties of the statistics functions                                   *)

Below(P, alpha, k) == {i \in 1..Len(P) : P[i] * Len(P) <= alpha * k}

\* rank k qualifies: the k-th smallest p-value is at most alpha * k / m
Qualifies(P, alpha, k) == Cardinality(Below(P, alpha, k)) >= k

\* C23: on a P that is not empty FDR_BH_threshold returns a threshold t;
\* with k the largest rank that qualifies, t = alpha * k / m and exactly k
\* p-values of P are at most t; when no rank qualifies no p-value is at
\* most t.
C23_BHStepUp ==
    (/\ last.op = "FDR_BH_threshold"
     /\ last.args.P # <<>>) =>
        LET P == last.args.P
            alpha == last.args.alpha
            m == Len(P)
            ranks == {k \in 1..m : Qualifies(P, alpha, k)}
            rejected == {i \in 1..m : AtMost(P[i], ret)}
        IN  /\ last.ok
            /\ ranks = {} => rejected = {}
            /\ ranks # {} =>
                 LET k == CHOOSE x \in ranks : \A y \in ranks : y <= x
                 IN  /\ ret.num * PGrid * m = alpha * k * ret.den
                     /\ Cardinality(rejected) = k
                     /\ \A i \in rejected, j \in 1..m \ rejected : P[i] < P[j]

\* three p-values of which the smallest fails its rank and the largest
\* passes: all three are at most the threshold
C23_Witness ==
    /\ last.op = "FDR_BH_threshold"
    /\ Len(last.args.P) = 3
    /\ ~Qualifies(last.args.P, last.args.alpha, 1)
    /\ Qualifies(last.args.P, last.args.alpha, 3)
    /\ \A i \in 1..3 : AtMost(last.args.P[i], ret)

\* C24: MRMR with criterion MID or MIQ returns min(n, |F|) rows, F the names
\* of df other than y and the excluded ones; the rows are indexed from 0 in
\* selection order, the first names a feature of the largest mutual
\* information with y, no name comes twice and every name is in F.
C24_SelectsMinOfNAndF ==
    (/\ last.op = "MRMR"
     /\ last.args.criterion \in {"MID", "MIQ"}) =>
        LET df == last.args.df
            y == last.args.y
            n == last.args.n
            F == (DOMAIN df \ {y}) \ last.args.to_exclude
            k == IF n < Cardinality(F) THEN n ELSE Cardinality(F)
        IN  /\ last.ok
            /\ Len(ret.Name) = k
            /\ ret.index = [i \in 1..k |-> i - 1]
            /\ k > 0 => \A g \in F : df[y][g] <= df[y][ret.Name[1]]
            /\ \A i, j \in 1..Len(ret.Name) : ret.Name[i] = ret.Name[j] => i = j
            /\ \A i \in 1..Len(ret.Name) : ret.Name[i] \in F

-----------------------------------------------------------------------------
(* Properties of the gene set collection and the text files                 *)

\* the lines of the GMT file the collection was loaded from
GMTFileLines == disk.gmt.content

\* C25: for a collection loaded from the GMT file, name in collection is
\* true exactly for the first fields of the lines of the file, and search
\* returns, each once, exactly the names of the lines that hold the gene in
\* a field from the third on.
C25_SearchByMembers ==
    /\ last.op = "contains_geneset" =>
          (last.value.value <=>
              \E i \in 1..Len(GMTFileLines) : GMTFileLines[i][1] = last.args.name)
    /\ last.op = "search" =>
          LET found == last.value.items
          IN  /\ \A i, j \in 1..Len(found) : found[i] = found[j] => i = j
              /\ {found[i] : i \in 1..Len(found)} =
                    {GMTFileLines[i][1] : i \in
                        {k \in 1..Len(GMTFileLines) :
                            \E f \in 3..Len(GMTFileLines[k]) :
                                GMTFileLines[k][f] = last.args.gene}}

\* no two lines of the GMT file have the same name
UniqueNames ==
    \A i, j \in 1..Len(GMTFileLines) :
        GMTFileLines[i][1] = GMTFileLines[j][1] => i = j

\* C25, for files whose names are unique: name in collection is true
\* exactly for the first fields of the lines, and search returns, each
\* once, exactly the names of the lines that hold the gene in a field
\* from the third on; a repeated name keeps the genes of its last line only.
C25_SearchByMembersOfUniqueNames == UniqueNames => C25_SearchByMembers

\* a search for TP53 in a file of two sets, one with TP53 as its description
\* and one with TP53 as a member, found the second only
C25_Witness ==
    /\ last.op = "search"
    /\ last.args.gene = "TP53"
    /\ GMTFileLines = <<<<"KEGG_C", "TP53">>, <<"KEGG_B", "", "TP53", "CLOCK">>>>
    /\ last.value.items = <<"KEGG_B">>

\* C26: the file that list2file leaves, in either mode, for a list of
\* strings without a line break reads back with file2list as that list,
\* with the same length and order.
C26_ListRoundTrip ==
    last.op = "list2file" => file2list(disk.txt) = last.args.L

-----------------------------------------------------------------------------
(* Properties of the notifications                                          *)

\* a text as echo prints it: the shell takes the single quotes away
Echoed(text) == SelectSeq(text, LAMBDA piece : piece # Quote)

\* C27: every finished call of the decorated function has sent one
\* notification and a running call none yet; after a call that returned
\* the last notification is the completion message and the call gave the
\* function's result, and after a call that raised the last notification
\* carries the traceback of the exception the caller got.
C27_OneNotificationPerCall ==
    /\ Len(outbox) = (IF job.pc = "running" THEN job.calls - 1 ELSE job.calls)
    /\ last.op = "decorated" =>
          /\ outbox # <<>>
          /\ outbox[Len(outbox)].body =
                (IF last.ok THEN time_info
                 ELSE Echoed(format_exception(last.value)))
          /\ last.ok => last.value \in Results
          /\ ~last.ok => last.value = last.args.raised

-----------------------------------------------------------------------------
(* Properties of the BioMart shortcuts                                      *)

\* C30: a query without a list of the caller's, and an annotate, asks for
\* the default attributes, with its own filter put in front when the filter
\* is not one of them, whatever the calls before it were.
C30_DefaultAttributesPerCall ==
    (\/ last.op = "annotate"
     \/ (last.op = "query" /\ ~last.args.own)) =>
        last.value.attributes =
            (IF IsIn(last.value.filters, QueryDefault) THEN QueryDefault
             ELSE insert0(QueryDefault, last.value.filters))

====
